---- MODULE Spec2Model ----
(***************************************************************************)
(* RepoRadar scan pipeline (src/unnamed/part_004, the /api/scan route):    *)
(* file selector, the three pattern analyzers, the score combiner, the     *)
(* narrative generator and the POST orchestrator.                          *)
(*                                                                         *)
(* Strings are TLA+ strings; String.prototype methods are modelled on      *)
(* their characters (SubSeq(s, i, i) is the i-th character).  File         *)
(* contents are abstracted to the quantities the analyzers read off them   *)
(* (regex match counts, line counts, lengths, substring flags).            *)
(***************************************************************************)
EXTENDS Integers, Sequences, FiniteSets, TLC

VARIABLES
    pc,                \* where the handler (or the function under study) stands
    listing,           \* tree.tree: sequence of [path, type] entries
    importantPaths,    \* what filterImportantFiles returned
    files,             \* the working set: sequence of RepoFile
    languages,         \* the sorted language percentages
    algorithmicScores, \* the ScoreBreakdown of the three analyzers
    completion,        \* how the text-generation call ended
    analysis,          \* the AnalysisResult
    overallScore,      \* what calculateOverallScore returned
    parsed,            \* owner and repo parsed from the request URL
    defaultBranch,     \* repoInfo.default_branch
    treeFetches,       \* the tree requests made so far: [branch, result]
    contentLog,        \* the content requests made so far: [path, outcome]
    upstream,          \* status of the metadata and the languages responses, text generations requested
    response,          \* the response of the POST handler
    locale,            \* the default locale of the runtime the code runs in
    firstRun,          \* what an earlier run of the deterministic core returned
    page               \* the landing page: its state, session storage, router

\* the variables only the POST handler writes
scanVars == <<parsed, defaultBranch, treeFetches, contentLog, upstream, response>>

\* the runtime, the record of an earlier run, and the client
envVars == <<locale, firstRun, page>>

vars == <<pc, listing, importantPaths, files, languages, algorithmicScores,
          completion, analysis, overallScore, scanVars, envVars>>

----------------------------------------------------------------------------
(* String primitives *)

Ch(s, i) == SubSeq(s, i, i)

\* String.prototype.includes
Includes(s, sub) ==
    \E i \in 1..(Len(s) - Len(sub) + 1) : SubSeq(s, i, i + Len(sub) - 1) = sub

\* String.prototype.endsWith
EndsWith(s, suf) ==
    Len(suf) <= Len(s) /\ SubSeq(s, Len(s) - Len(suf) + 1, Len(s)) = suf

\* printable ASCII in code-unit order: 32..95, then 97..126 (the grave
\* accent, 96, cannot be written in a string here and occurs in no input)
Ascii == " !\"#$%&'()*+,-./0123456789:;<=>?@ABCDEFGHIJKLMNOPQRSTUVWXYZ[\\]^_abcdefghijklmnopqrstuvwxyz{|}~"

IndexIn(c, alphabet) == CHOOSE i \in 1..Len(alphabet) : Ch(alphabet, i) = c

AsciiChars == { Ch(Ascii, i) : i \in 1..Len(Ascii) }

\* U+00AD SOFT HYPHEN, the one character outside ASCII that inputs hold: a
\* path is any string, and the collator gives this character no weight
SoftHyphen == "­"

Chars == AsciiChars \cup {SoftHyphen}

\* UTF-16 code unit of a character
CodeUnit ==
    [c \in Chars |-> IF c = SoftHyphen THEN 173
                     ELSE IF IndexIn(c, Ascii) <= 64 THEN 31 + IndexIn(c, Ascii)
                     ELSE 32 + IndexIn(c, Ascii)]

LowerLetters == "abcdefghijklmnopqrstuvwxyz"
UpperLetters == "ABCDEFGHIJKLMNOPQRSTUVWXYZ"

IsUpper(c) == CodeUnit[c] >= 65 /\ CodeUnit[c] <= 90

\* String.prototype.toLowerCase, per character
LowerChar == [c \in Chars |-> IF IsUpper(c) THEN Ch(LowerLetters, CodeUnit[c] - 64) ELSE c]

RECURSIVE toLowerCase(_)
toLowerCase(s) ==
    IF Len(s) = 0 THEN "" ELSE LowerChar[Ch(s, 1)] \o toLowerCase(SubSeq(s, 2, Len(s)))

\* Code-unit (case-sensitive lexicographic) order of two strings: the order
\* of the < and <= operators of the language on strings.
RECURSIVE CodeUnitCompare(_, _)
CodeUnitCompare(a, b) ==
    IF Len(a) = 0 /\ Len(b) = 0 THEN 0
    ELSE IF Len(a) = 0 THEN -1
    ELSE IF Len(b) = 0 THEN 1
    ELSE IF CodeUnit[Ch(a, 1)] < CodeUnit[Ch(b, 1)] THEN -1
    ELSE IF CodeUnit[Ch(a, 1)] > CodeUnit[Ch(b, 1)] THEN 1
    ELSE CodeUnitCompare(SubSeq(a, 2, Len(a)), SubSeq(b, 2, Len(b)))

\* Root collation order of the runtime's Intl collator on ASCII: white
\* space, punctuation, symbols, digits, letters; case is a tertiary
\* difference (lower case first) looked at only when the strings are equal
\* letter for letter.
CollationOrder == " _-,;:!?.'\"()[]{}@*/\\&#%^+<=>|~$0123456789abcdefghijklmnopqrstuvwxyz"

\* The same for the Estonian tailoring, where z is a letter between s and t.
CollationOrderEt == " _-,;:!?.'\"()[]{}@*/\\&#%^+<=>|~$0123456789abcdefghijklmnopqrsztuvwxy"

\* localeCompare is called with no locale argument, so the collator is that
\* of the default locale of the runtime, which the host's environment
\* sets.  Two are modelled: English (root order) and Estonian.
Locales == {"en", "et"}

RootWeight == [c \in AsciiChars |-> IndexIn(LowerChar[c], CollationOrder)]

EstonianWeight == [c \in AsciiChars |-> IndexIn(LowerChar[c], CollationOrderEt)]

PrimaryWeight == IF locale = "et" THEN EstonianWeight ELSE RootWeight

RECURSIVE ComparePrimary(_, _)
ComparePrimary(a, b) ==
    IF Len(a) = 0 /\ Len(b) = 0 THEN 0
    ELSE IF Len(a) = 0 THEN -1
    ELSE IF Len(b) = 0 THEN 1
    ELSE IF PrimaryWeight[Ch(a, 1)] < PrimaryWeight[Ch(b, 1)] THEN -1
    ELSE IF PrimaryWeight[Ch(a, 1)] > PrimaryWeight[Ch(b, 1)] THEN 1
    ELSE ComparePrimary(SubSeq(a, 2, Len(a)), SubSeq(b, 2, Len(b)))

RECURSIVE CompareTertiary(_, _)
CompareTertiary(a, b) ==
    IF Len(a) = 0 \/ Len(b) = 0 THEN 0
    ELSE IF ~IsUpper(Ch(a, 1)) /\ IsUpper(Ch(b, 1)) THEN -1
    ELSE IF IsUpper(Ch(a, 1)) /\ ~IsUpper(Ch(b, 1)) THEN 1
    ELSE CompareTertiary(SubSeq(a, 2, Len(a)), SubSeq(b, 2, Len(b)))

\* the characters of a string that the collator weighs: completely
\* ignorable ones (here the soft hyphen) take no part in any comparison
RECURSIVE CollationElements(_)
CollationElements(s) ==
    IF \A i \in 1..Len(s) : Ch(s, i) # SoftHyphen THEN s
    ELSE (IF Ch(s, 1) = SoftHyphen THEN "" ELSE Ch(s, 1)) \o CollationElements(SubSeq(s, 2, Len(s)))

\* String.prototype.localeCompare (no locale argument)
localeCompare(a, b) ==
    LET x == CollationElements(a)
        y == CollationElements(b)
    IN IF ComparePrimary(x, y) # 0 THEN ComparePrimary(x, y) ELSE CompareTertiary(x, y)

----------------------------------------------------------------------------
(* File Selector *)

MaxSelected == 20

importantExtensions ==
    << ".js", ".jsx", ".ts", ".tsx", ".py", ".java", ".go", ".rs", ".rb",
       ".php", ".c", ".cpp", ".h", ".cs", ".swift", ".kt", ".scala",
       ".vue", ".svelte", ".json", ".yaml", ".yml", ".toml", ".env.example",
       ".md", ".dockerfile", "Dockerfile", ".sql" >>

importantFiles ==
    { "package.json", "requirements.txt", "Cargo.toml", "go.mod",
      "pom.xml", "build.gradle", "Gemfile", "composer.json",
      "README.md", "readme.md", ".env.example", "docker-compose.yml",
      "Dockerfile", ".gitignore", "tsconfig.json", "next.config.js",
      "next.config.ts", "vite.config.ts", "webpack.config.js" }

\* number of "/" in a path
SlashCount(path) == Cardinality({ i \in 1..Len(path) : Ch(path, i) = "/" })

\* path.split("/").pop() || ""
FileNameOf(path) ==
    LET slashes == { i \in 1..Len(path) : Ch(path, i) = "/" }
        last == IF slashes = {} THEN 0 ELSE CHOOSE i \in slashes : \A j \in slashes : j <= i
    IN SubSeq(path, last + 1, Len(path))

Max(a, b) == IF a >= b THEN a ELSE b
Min(a, b) == IF a <= b THEN a ELSE b

getPriority(path) ==
    LET fileName == FileNameOf(path)
        depth == SlashCount(path) + 1
        depthBonus == Max(0, 10 - depth)
    IN IF fileName \in importantFiles THEN 100
       ELSE IF EndsWith(path, ".ts") \/ EndsWith(path, ".tsx") THEN 80 + depthBonus
       ELSE IF EndsWith(path, ".js") \/ EndsWith(path, ".jsx") THEN 75 + depthBonus
       ELSE IF EndsWith(path, ".py") THEN 70 + depthBonus
       ELSE IF EndsWith(path, ".go") \/ EndsWith(path, ".rs") THEN 65 + depthBonus
       ELSE IF EndsWith(path, ".java") \/ EndsWith(path, ".kt") THEN 60 + depthBonus
       ELSE 50 + depthBonus

\* a selector that keeps every blob
KeptIfBlob(f) == f.type = "blob"

\* the chain of .filter calls of filterImportantFiles on one entry
KeptBySelector(f) ==
    /\ f.type = "blob"
    /\ \/ \E i \in 1..Len(importantExtensions) : EndsWith(f.path, importantExtensions[i])
       \/ FileNameOf(f.path) \in importantFiles
    /\ ~Includes(f.path, "node_modules")
    /\ ~Includes(f.path, "dist/")
    /\ ~Includes(f.path, "build/")
    /\ ~Includes(f.path, ".min.")
    /\ ~Includes(f.path, "vendor/")
    /\ ~Includes(f.path, "__pycache__")
    /\ ~Includes(f.path, ".git/")
    /\ ~Includes(f.path, "coverage/")
    /\ ~Includes(f.path, "test/") /\ ~Includes(f.path, "tests/") /\ ~Includes(f.path, "__tests__/")

\* comparator of the selector's sort: negative when a goes first
SelectorCompare(a, b) ==
    LET priorityDiff == getPriority(b) - getPriority(a)
    IN IF priorityDiff # 0 THEN priorityDiff ELSE localeCompare(a, b)

----------------------------------------------------------------------------
(* Issues and their order *)

\* Issue.file when the analyzer gives none
undefined == "undefined"

Issue(sev, msg, file) == [severity |-> sev, message |-> msg, file |-> file]

severityOrder == [critical |-> 0, warning |-> 1, info |-> 2]

\* comparator of sortIssues: negative when a goes first
IssueCompare(a, b) ==
    LET severityDiff == severityOrder[a.severity] - severityOrder[b.severity]
    IN IF severityDiff # 0 THEN severityDiff ELSE localeCompare(a.message, b.message)

\* [...issues].sort(cmp): Array.prototype.sort is stable
RECURSIVE sortIssues(_)
sortIssues(issues) ==
    IF Len(issues) <= 1 THEN issues
    ELSE LET front == sortIssues(SubSeq(issues, 1, Len(issues) - 1))
             x == issues[Len(issues)]
             k == Cardinality({ i \in 1..Len(front) : IssueCompare(front[i], x) <= 0 })
         IN SubSeq(front, 1, k) \o <<x>> \o SubSeq(front, k + 1, Len(front))

----------------------------------------------------------------------------
(* Pattern tables.  Whether and how often a pattern matches a content is   *)
(* read from the content's sec / cq fields, indexed like the tables.       *)

SECURITY_PATTERNS ==
    << [severity |-> "critical", message |-> "Hardcoded API key detected"],
       [severity |-> "critical", message |-> "Hardcoded password detected"],
       [severity |-> "critical", message |-> "Hardcoded secret detected"],
       [severity |-> "critical", message |-> "Hardcoded private key detected"],
       [severity |-> "critical", message |-> "Hardcoded JWT token detected"],
       [severity |-> "warning", message |-> "Use of eval() - potential code injection risk"],
       [severity |-> "warning", message |-> "dangerouslySetInnerHTML usage - XSS risk"],
       [severity |-> "warning", message |-> "Direct innerHTML assignment - XSS risk"],
       [severity |-> "warning", message |-> "Shell command execution detected"],
       [severity |-> "warning", message |-> "Potential SQL injection vulnerability"],
       [severity |-> "info", message |-> "Non-HTTPS URL detected"],
       [severity |-> "warning", message |-> "SSL verification may be disabled"] >>

CODE_QUALITY_PATTERNS ==
    << [severity |-> "info", message |-> "Console statement found (remove in production)", fileTypes |-> <<>>],
       [severity |-> "info", message |-> "TODO/FIXME comment found", fileTypes |-> <<>>],
       [severity |-> "warning", message |-> "TypeScript 'any' type usage reduces type safety", fileTypes |-> <<".ts", ".tsx">>],
       [severity |-> "warning", message |-> "Empty catch block - errors silently ignored", fileTypes |-> <<>>],
       [severity |-> "warning", message |-> "Function with too many parameters", fileTypes |-> <<>>],
       [severity |-> "info", message |-> "Excessive indentation detected", fileTypes |-> <<>>],
       [severity |-> "info", message |-> "Multiple consecutive blank lines", fileTypes |-> <<>>] >>

codeExtensions ==
    << ".js", ".jsx", ".ts", ".tsx", ".py", ".java", ".go", ".rs", ".rb", ".php",
       ".c", ".cpp", ".cs", ".swift", ".kt", ".vue", ".svelte" >>

\* codeExtensions.some(ext => path.endsWith(ext))
IsCodePath(path) == \E i \in 1..Len(codeExtensions) : EndsWith(path, codeExtensions[i])

----------------------------------------------------------------------------
(* Contents, by what the analyzers read off them:                          *)
(*   len        content.length                                             *)
(*   lines      content.split("\n").length                                 *)
(*   longLines  number of lines longer than 150 characters                 *)
(*   sec        indices of the SECURITY_PATTERNS that match                *)
(*   cq         matches.length per CODE_QUALITY_PATTERNS entry (0: null)   *)
(*   env        includes process.env, os.environ or getenv                 *)
(*   testCalls  includes describe(, it( or test(                           *)
(*   tryLit     includes "try {" or "try{"                                 *)
(*   catchLit   includes catch, .catch( or "except "                       *)
(*   asyncFns   matches of /async\s+function|async\s*\(/g                  *)
(*   awaits     matches of /await\s+/g                                     *)
(*   tryBlocks  matches of /try\s*\{/g                                     *)
(* Each record below is computed from a concrete text:                     *)
(*   cReadmeShort  a three-line README of 30 characters                    *)
(*   cReadmeLong   a README of 1281 characters                             *)
(*   cPackageJson  a package.json with name, version, dependencies         *)
(*   cGitignore    node_modules and .env                                   *)
(*   cLicense      the first lines of the MIT license                      *)
(*   cApiKey       const apiKey = "sk-12345"                               *)
(*   cGuardedTs    one async function whose await sits in try/catch and    *)
(*                 reads process.env                                       *)
(*   cBadTs        63 lines matching every security pattern, with 10       *)
(*                 console.log, 8 TODO, 5 any, 4 empty catch blocks, one   *)
(*                 run of blank lines, 4 awaits, 14 async arrow functions  *)
(*                 and process.env                                         *)
(*   cViewTsx      a component assigning innerHTML and using               *)
(*                 dangerouslySetInnerHTML, with one any                   *)
(*   cBigPy        601 lines, 6 of them longer than 150, 5 awaits, no try, *)
(*                 an http:// URL of a remote host                         *)
(*   cDotEnv       API_KEY=abc123 and SECRET=xyz, unquoted                 *)
(*   cGeneratedJs  820 lines of table data, 9 of them longer than 150      *)

cReadmeShort ==
    [len |-> 30, lines |-> 4, longLines |-> 0,
     sec |-> {}, cq |-> <<0, 0, 0, 0, 0, 0, 0>>,
     env |-> FALSE, testCalls |-> FALSE, tryLit |-> FALSE, catchLit |-> FALSE,
     asyncFns |-> 0, awaits |-> 0, tryBlocks |-> 0]

cReadmeLong ==
    [len |-> 1281, lines |-> 4, longLines |-> 1,
     sec |-> {}, cq |-> <<0, 0, 0, 0, 0, 0, 0>>,
     env |-> FALSE, testCalls |-> FALSE, tryLit |-> FALSE, catchLit |-> FALSE,
     asyncFns |-> 0, awaits |-> 0, tryBlocks |-> 0]

cPackageJson ==
    [len |-> 59, lines |-> 2, longLines |-> 0,
     sec |-> {}, cq |-> <<0, 0, 0, 0, 0, 0, 0>>,
     env |-> FALSE, testCalls |-> FALSE, tryLit |-> FALSE, catchLit |-> FALSE,
     asyncFns |-> 0, awaits |-> 0, tryBlocks |-> 0]

cGitignore ==
    [len |-> 18, lines |-> 3, longLines |-> 0,
     sec |-> {}, cq |-> <<0, 0, 0, 0, 0, 0, 0>>,
     env |-> FALSE, testCalls |-> FALSE, tryLit |-> FALSE, catchLit |-> FALSE,
     asyncFns |-> 0, awaits |-> 0, tryBlocks |-> 0]

cLicense ==
    [len |-> 91, lines |-> 4, longLines |-> 0,
     sec |-> {}, cq |-> <<0, 0, 1, 0, 0, 0, 0>>,
     env |-> FALSE, testCalls |-> FALSE, tryLit |-> FALSE, catchLit |-> FALSE,
     asyncFns |-> 0, awaits |-> 0, tryBlocks |-> 0]

cApiKey ==
    [len |-> 25, lines |-> 1, longLines |-> 0,
     sec |-> {1}, cq |-> <<0, 0, 0, 0, 0, 0, 0>>,
     env |-> FALSE, testCalls |-> FALSE, tryLit |-> FALSE, catchLit |-> FALSE,
     asyncFns |-> 0, awaits |-> 0, tryBlocks |-> 0]

cGuardedTs ==
    [len |-> 196, lines |-> 11, longLines |-> 0,
     sec |-> {}, cq |-> <<0, 0, 0, 0, 0, 0, 0>>,
     env |-> TRUE, testCalls |-> FALSE, tryLit |-> TRUE, catchLit |-> TRUE,
     asyncFns |-> 1, awaits |-> 1, tryBlocks |-> 1]

cBadTs ==
    [len |-> 1190, lines |-> 63, longLines |-> 0,
     sec |-> {1, 2, 3, 4, 5, 6, 7, 8, 9, 10, 11, 12}, cq |-> <<10, 8, 5, 4, 0, 0, 1>>,
     env |-> TRUE, testCalls |-> FALSE, tryLit |-> TRUE, catchLit |-> TRUE,
     asyncFns |-> 14, awaits |-> 4, tryBlocks |-> 4]

cViewTsx ==
    [len |-> 178, lines |-> 6, longLines |-> 0,
     sec |-> {7, 8}, cq |-> <<0, 0, 1, 0, 0, 0, 0>>,
     env |-> FALSE, testCalls |-> FALSE, tryLit |-> FALSE, catchLit |-> FALSE,
     asyncFns |-> 0, awaits |-> 0, tryBlocks |-> 0]

cBigPy ==
    [len |-> 7301, lines |-> 601, longLines |-> 6,
     sec |-> {11}, cq |-> <<0, 0, 0, 0, 0, 0, 0>>,
     env |-> FALSE, testCalls |-> FALSE, tryLit |-> FALSE, catchLit |-> FALSE,
     asyncFns |-> 0, awaits |-> 5, tryBlocks |-> 0]

cDotEnv ==
    [len |-> 26, lines |-> 3, longLines |-> 0,
     sec |-> {}, cq |-> <<0, 0, 0, 0, 0, 0, 0>>,
     env |-> FALSE, testCalls |-> FALSE, tryLit |-> FALSE, catchLit |-> FALSE,
     asyncFns |-> 0, awaits |-> 0, tryBlocks |-> 0]

cGeneratedJs ==
    [len |-> 41200, lines |-> 820, longLines |-> 9,
     sec |-> {}, cq |-> <<0, 0, 0, 0, 0, 0, 0>>,
     env |-> FALSE, testCalls |-> FALSE, tryLit |-> FALSE, catchLit |-> FALSE,
     asyncFns |-> 0, awaits |-> 0, tryBlocks |-> 0]

\* content "" (what fetchFileContent returns for a failed fetch)
cEmpty ==
    [len |-> 0, lines |-> 1, longLines |-> 0,
     sec |-> {}, cq |-> <<0, 0, 0, 0, 0, 0, 0>>,
     env |-> FALSE, testCalls |-> FALSE, tryLit |-> FALSE, catchLit |-> FALSE,
     asyncFns |-> 0, awaits |-> 0, tryBlocks |-> 0]

RepoFile(path, content) == [path |-> path, content |-> content]

\* the files working sets are drawn from
FilePool ==
    { RepoFile("README.md", cReadmeShort),
      RepoFile("docs/README.md", cReadmeLong),
      RepoFile("package.json", cPackageJson),
      RepoFile(".gitignore", cGitignore),
      RepoFile("LICENSE.md", cLicense),
      RepoFile("config.js", cApiKey),
      RepoFile("src/app.ts", cGuardedTs),
      RepoFile("src/bad.ts", cBadTs),
      RepoFile("src/View.tsx", cViewTsx),
      RepoFile("lib/big_module.py", cBigPy),
      RepoFile("src/generated.js", cGeneratedJs),
      RepoFile(".env", cDotEnv) }

----------------------------------------------------------------------------
(* Security analyzer *)

CategoryResult(score, issues) == [score |-> score, issues |-> issues]

\* info rules deducted like warnings
SecurityDeductionTwoTier(sev) == IF sev = "critical" THEN 30 ELSE 15

SecurityDeduction(sev) == IF sev = "critical" THEN 30 ELSE IF sev = "warning" THEN 15 ELSE 8

\* a rule table that is never marked
NeverFound(acc, message) == FALSE

\* foundPatterns.has(check.message)
AlreadyFound(acc, message) == message \in acc.foundPatterns

\* the inner loop over SECURITY_PATTERNS for one file, from rule k on
RECURSIVE SecurityChecks(_, _, _)
SecurityChecks(acc, file, k) ==
    IF k > Len(SECURITY_PATTERNS) THEN acc
    ELSE LET check == SECURITY_PATTERNS[k]
             matches == k \in file.content.sec
             next == IF matches /\ ~AlreadyFound(acc, check.message)
                     THEN [score |-> acc.score - SecurityDeduction(check.severity),
                           issues |-> Append(acc.issues, Issue(check.severity, check.message, file.path)),
                           foundPatterns |-> acc.foundPatterns \cup {check.message}]
                     ELSE acc
         IN SecurityChecks(next, file, k + 1)

SecuritySkips(path) == Includes(path, ".md") \/ Includes(path, ".txt") \/ Includes(path, "test")

\* the outer loop over the files, from file i on
RECURSIVE SecurityScan(_, _, _)
SecurityScan(acc, fileSeq, i) ==
    IF i > Len(fileSeq) THEN acc
    ELSE IF SecuritySkips(fileSeq[i].path) THEN SecurityScan(acc, fileSeq, i + 1)
    ELSE SecurityScan(SecurityChecks(acc, fileSeq[i], 1), fileSeq, i + 1)

IsEnvPath(path) == path = ".env" \/ EndsWith(path, "/.env")

\* a security score without its floor
SecurityFinalScoreUnclamped(score) == score

\* Math.max(0, score) of the return statement
SecurityFinalScore(score) == Max(0, score)

HasCodeExtension(f) == IsCodePath(f.path)

\* only the first file looked at
firstCodeFile(fileSeq) == SelectSeq(SubSeq(fileSeq, 1, Min(1, Len(fileSeq))), HasCodeExtension)

\* files.filter(f => codeExtensions.some(ext => f.path.endsWith(ext)))
codeFiles(fileSeq) == SelectSeq(fileSeq, HasCodeExtension)

analyzeSecurityPatterns(fileSeq) ==
    LET scanned == SecurityScan([score |-> 100, issues |-> <<>>, foundPatterns |-> {}], fileSeq, 1)
        envIdx == { i \in 1..Len(fileSeq) : IsEnvPath(fileSeq[i].path) }
        envFile == fileSeq[CHOOSE i \in envIdx : \A j \in envIdx : i <= j]
        score2 == IF envIdx # {} THEN scanned.score - 25 ELSE scanned.score
        issues2 == IF envIdx # {}
                   THEN Append(scanned.issues,
                               Issue("critical", ".env file should not be committed to repository", envFile.path))
                   ELSE scanned.issues
        score3 == IF Len(issues2) = 0 THEN 100 ELSE score2
    IN IF Len(codeFiles(fileSeq)) = 0
       THEN CategoryResult(50, << Issue("warning", "No code files to assess for security vulnerabilities", undefined) >>)
       ELSE CategoryResult(SecurityFinalScore(score3), sortIssues(issues2))

----------------------------------------------------------------------------
(* Code-quality analyzer *)

QualitySkips(path) ==
    \/ EndsWith(path, ".md") \/ EndsWith(path, ".json") \/ EndsWith(path, ".yaml")
    \/ EndsWith(path, ".yml") \/ EndsWith(path, ".toml")

\* keys of issueCounts; a key never written reads as undefined, here 0
IssueCountKeys ==
    {"large_file", "long_lines"} \cup { CODE_QUALITY_PATTERNS[k].message : k \in 1..Len(CODE_QUALITY_PATTERNS) }

\* `${message} (${n} occurrence${n > 1 ? "s" : ""})`
OccurrenceMessage(message, n) ==
    message \o " (" \o ToString(n) \o " occurrence" \o (IF n > 1 THEN "s" ELSE "") \o ")"

\* the inner loop over CODE_QUALITY_PATTERNS for one file, from rule k on
RECURSIVE QualityChecks(_, _, _)
QualityChecks(acc, file, k) ==
    IF k > Len(CODE_QUALITY_PATTERNS) THEN acc
    ELSE LET check == CODE_QUALITY_PATTERNS[k]
             restricted == Len(check.fileTypes) > 0
                           /\ ~\E t \in 1..Len(check.fileTypes) : EndsWith(file.path, check.fileTypes[t])
             n == file.content.cq[k]
             key == check.message
             first == acc.issueCounts[key] = 0
             deduction == IF check.severity = "warning" THEN 6 ELSE 3
             next == IF ~restricted /\ n > 0
                     THEN [acc EXCEPT
                             !.issues = IF first
                                        THEN Append(@, Issue(check.severity, OccurrenceMessage(check.message, n), file.path))
                                        ELSE @,
                             !.issueCounts[key] = @ + n,
                             !.score = @ - Min(deduction * n, 20),
                             !.deducted[k] = @ + Min(deduction * n, 20)]
                     ELSE acc
         IN QualityChecks(next, file, k + 1)

\* one iteration of the first loop over the files
QualityFile(acc, file) ==
    LET isCodeFile == IsCodePath(file.path)
        lines == file.content.lines
        counted == IF isCodeFile
                   THEN [acc EXCEPT !.codeFiles = @ + 1, !.totalLines = @ + lines]
                   ELSE acc
        sized == IF lines > 500
                 THEN [counted EXCEPT
                         !.issues = IF counted.issueCounts["large_file"] = 0
                                    THEN Append(@, Issue("warning", "Some files exceed 500 lines - consider splitting", file.path))
                                    ELSE @,
                         !.issueCounts["large_file"] = @ + 1,
                         !.score = @ - 5,
                         !.largeDeducted = @ + 5]
                 ELSE counted
        checked == QualityChecks(sized, file, 1)
        longLines == file.content.longLines
    IN IF longLines > 5 /\ checked.issueCounts["long_lines"] = 0
       THEN [checked EXCEPT
               !.issueCounts["long_lines"] = longLines,
               !.score = @ - 8,
               !.longDeducted = @ + 8,
               !.issues = Append(@, Issue("info", ToString(longLines) \o " lines exceed 150 characters", file.path))]
       ELSE checked

RECURSIVE QualityScan(_, _, _)
QualityScan(acc, fileSeq, i) ==
    IF i > Len(fileSeq) THEN acc
    ELSE IF QualitySkips(fileSeq[i].path) THEN QualityScan(acc, fileSeq, i + 1)
    ELSE QualityScan(QualityFile(acc, fileSeq[i]), fileSeq, i + 1)

\* the file-count band
QualityFileBand(acc) ==
    IF acc.codeFiles = 0
    THEN [acc EXCEPT !.score = @ - 50,
                     !.issues = Append(@, Issue("critical", "No actual code files found - repository lacks implementation", undefined))]
    ELSE IF acc.codeFiles = 1
    THEN [acc EXCEPT !.score = @ - 25,
                     !.issues = Append(@, Issue("warning", "Only 1 code file found - very minimal codebase", undefined))]
    ELSE IF acc.codeFiles <= 3
    THEN [acc EXCEPT !.score = @ - 15,
                     !.issues = Append(@, Issue("info", "Very few code files - limited codebase", undefined))]
    ELSE acc

\* the total-line band
QualityLineBand(acc) ==
    IF acc.totalLines < 50 /\ acc.codeFiles > 0
    THEN [acc EXCEPT !.score = @ - 30,
                     !.issues = Append(@, Issue("warning",
                         "Only " \o ToString(acc.totalLines) \o " lines of code - insufficient implementation", undefined))]
    ELSE IF acc.totalLines < 150 /\ acc.codeFiles > 0
    THEN [acc EXCEPT !.score = @ - 15,
                     !.issues = Append(@, Issue("info",
                         "Only " \o ToString(acc.totalLines) \o " lines of code - minimal implementation", undefined))]
    ELSE IF acc.totalLines < 300 /\ acc.codeFiles > 0
    THEN [acc EXCEPT !.score = @ - 8,
                     !.issues = Append(@, Issue("info",
                         ToString(acc.totalLines) \o " lines of code - small codebase", undefined))]
    ELSE acc

\* fileName.replace(/\.[^/.]+$/, ""): drop the last extension
StripExtension(fileName) ==
    LET dots == { i \in 1..Len(fileName) : Ch(fileName, i) = "." }
        last == IF dots = {} THEN 0 ELSE CHOOSE i \in dots : \A j \in dots : j <= i
    IN IF last > 0 /\ last < Len(fileName) THEN SubSeq(fileName, 1, last - 1) ELSE fileName

\* which naming counter a path increments
NamingStyle(path) ==
    LET name == StripExtension(FileNameOf(path))
    IN IF Includes(name, "-") THEN "kebab"
       ELSE IF Includes(name, "_") THEN "snake"
       ELSE IF Len(name) = 0 \/ ~(CodeUnit[Ch(name, 1)] >= 97 /\ CodeUnit[Ch(name, 1)] <= 122) THEN "pascal"
       ELSE "camel"

\* the naming-consistency check; dominant / total < 0.6 is exact here
\* (the quotient of two counts up to the cap is 0.6 only when it is 3/5)
QualityNaming(acc, fileSeq) ==
    LET count(style) == Cardinality({ i \in 1..Len(fileSeq) : NamingStyle(fileSeq[i].path) = style })
        styles == {"kebab", "camel", "snake", "pascal"}
        totalFilesForNaming == Len(fileSeq)
        dominantStyle == CHOOSE n \in { count(st) : st \in styles } : \A st \in styles : count(st) <= n
    IN IF totalFilesForNaming > 3 /\ 10 * dominantStyle < 6 * totalFilesForNaming
       THEN [acc EXCEPT !.score = @ - 8,
                        !.issues = Append(@, Issue("info", "Inconsistent file naming conventions", undefined))]
       ELSE acc

\* the locals of analyzeCodeQuality before the loop; deducted keeps, for
\* each rule of the table, the points taken off the score on its account,
\* largeDeducted and longDeducted those of the file-size and long-line checks
QualityStart ==
    [score |-> 100, issues |-> <<>>, issueCounts |-> [key \in IssueCountKeys |-> 0],
     totalLines |-> 0, codeFiles |-> 0, deducted |-> [k \in 1..Len(CODE_QUALITY_PATTERNS) |-> 0],
     largeDeducted |-> 0, longDeducted |-> 0]

\* the locals of analyzeCodeQuality after the loop over the files
QualityLoop(fileSeq) == QualityScan(QualityStart, fileSeq, 1)

\* points taken off by the first loop on account of each rule of the table
QualityRuleDeductions(fileSeq) == QualityScan(QualityStart, fileSeq, 1).deducted

analyzeCodeQuality(fileSeq) ==
    LET start == QualityStart
        final == QualityNaming(QualityLineBand(QualityFileBand(QualityScan(start, fileSeq, 1))), fileSeq)
    IN CategoryResult(Max(0, Min(100, final.score)), sortIssues(final.issues))

----------------------------------------------------------------------------
(* Best-practices analyzer *)

\* a check that deducts without an issue
DeductSilently(acc, fires, points, sev, msg) ==
    IF fires THEN [score |-> acc.score - points, issues |-> acc.issues] ELSE acc

\* a check that deducts and pushes one issue when it fires
Deduct(acc, fires, points, sev, msg) ==
    IF fires
    THEN [score |-> acc.score - points, issues |-> Append(acc.issues, Issue(sev, msg, undefined))]
    ELSE acc

RECURSIVE SumCounts(_, _, _)
SumCounts(fileSeq, field, i) ==
    IF i > Len(fileSeq) THEN 0 ELSE fileSeq[i].content[field] + SumCounts(fileSeq, field, i + 1)

\* The regex counts and substring flags of allContent = contents joined by
\* "\n": no pattern of checkBestPractices matches across a line break
\* between two pool contents, so counts add up and flags are disjunctions.
checkBestPractices(fileSeq) ==
    LET fileNames == [i \in 1..Len(fileSeq) |-> toLowerCase(fileSeq[i].path)]
        someName(sub) == \E i \in 1..Len(fileSeq) : Includes(fileNames[i], sub)
        someContent(flag) == \E i \in 1..Len(fileSeq) : fileSeq[i].content[flag]
        hasReadme == someName("readme")
        readmeIdx == { i \in 1..Len(fileSeq) : Includes(fileNames[i], "readme") }
        readmeFile == fileSeq[CHOOSE i \in readmeIdx : \A j \in readmeIdx : i <= j]
        hasGitignore == someName(".gitignore")
        hasDependencyFile ==
            \/ someName("package.json") \/ someName("requirements.txt")
            \/ someName("cargo.toml") \/ someName("go.mod") \/ someName("pom.xml")
        hasTypeScript == \E i \in 1..Len(fileSeq) : EndsWith(fileNames[i], ".ts") \/ EndsWith(fileNames[i], ".tsx")
        hasTsConfig == someName("tsconfig")
        hasEnvExample == someName(".env.example") \/ someName(".env.sample")
        usesEnvVars == someContent("env")
        hasTests == \/ someName("test") \/ someName("spec") \/ someName("__tests__")
                    \/ someContent("testCalls")
        hasLicense == someName("license")
        hasTryCatch == someContent("tryLit")
        hasErrorHandler == someContent("catchLit")
        asyncFunctions == SumCounts(fileSeq, "asyncFns", 1)
        awaitStatements == SumCounts(fileSeq, "awaits", 1)
        tryCatchCount == SumCounts(fileSeq, "tryBlocks", 1)
        a0 == [score |-> 100, issues |-> <<>>]
        a1 == IF ~hasReadme
              THEN Deduct(a0, TRUE, 20, "warning", "No README.md file found")
              ELSE IF readmeFile.content.len < 500
              THEN Deduct(a0, TRUE, 15, "warning", "README is too minimal (< 500 chars) - needs better documentation")
              ELSE Deduct(a0, readmeFile.content.len < 1000, 8, "info", "README could be more comprehensive")
        a2 == Deduct(a1, ~hasGitignore, 15, "warning", "No .gitignore file found")
        a3 == Deduct(a2, ~hasDependencyFile, 10, "info", "No dependency/package management file found")
        a4 == Deduct(a3, hasTypeScript /\ ~hasTsConfig, 12, "warning", "TypeScript files without tsconfig.json")
        a5 == Deduct(a4, usesEnvVars /\ ~hasEnvExample, 12, "warning", "Uses environment variables but no .env.example file")
        a6 == Deduct(a5, ~hasTests, 20, "warning", "No test files detected - testing is critical")
        a7 == Deduct(a6, ~hasLicense, 10, "info", "No LICENSE file found")
        a8 == Deduct(a7, ~hasTryCatch /\ ~hasErrorHandler, 15, "warning", "No error handling patterns detected")
        \* tryCatchCount < asyncFunctions * 0.3, exact for counts this small
        a9 == Deduct(a8, (asyncFunctions > 0 \/ awaitStatements > 3) /\ 10 * tryCatchCount < 3 * asyncFunctions,
                     10, "warning", "Async code lacks proper error handling")
    IN CategoryResult(Max(0, a9.score), sortIssues(a9.issues))

----------------------------------------------------------------------------
(* Score Combiner.  Numbers of the language are IEEE-754 doubles.  Every   *)
(* double that calculateOverallScore can produce is a whole multiple of    *)
(* 2^-54 below 128, and is kept here as that multiple, in four limbs of    *)
(* 18 bits, least significant first: limbs 1 to 3 are the 54 fraction      *)
(* bits, limb 4 is the integer part.                                       *)

LimbBase == 262144      \* 2^18
HalfLimb == 131072      \* 2^17

RECURSIVE Pow2(_)
Pow2(n) == IF n = 0 THEN 1 ELSE 2 * Pow2(n - 1)

\* number of bits of a natural number
RECURSIVE BitLen(_)
BitLen(n) == IF n = 0 THEN 0 ELSE 1 + BitLen(n \div 2)

\* propagate carries out of limbs 1 to 3
Carry(d) ==
    LET c1 == d[1] \div LimbBase
        l2 == d[2] + c1
        c2 == l2 \div LimbBase
        l3 == d[3] + c2
        c3 == l3 \div LimbBase
    IN << d[1] % LimbBase, l2 % LimbBase, l3 % LimbBase, d[4] + c3 >>

\* round an exact value to the nearest double (53 significant bits, ties
\* to even)
RoundToDouble(d) ==
    LET shift == IF d[4] > 0 THEN BitLen(d[4]) + 1
                 ELSE IF d[3] >= HalfLimb THEN 1
                 ELSE 0
        unit == Pow2(shift)
        kept == d[1] \div unit
        rest == d[1] % unit
        up == shift > 0 /\ (2 * rest > unit \/ (2 * rest = unit /\ kept % 2 = 1))
    IN Carry(<< (kept + (IF up THEN 1 ELSE 0)) * unit, d[2], d[3], d[4] >>)

\* the double nearest to a decimal literal of the source
Weight040 == << 104858, 157286, 104857, 0 >>    \* 0.40 = 0x1.999999999999ap-2
Weight035 == << 157286, 104857, 91750, 0 >>     \* 0.35 = 0x1.6666666666666p-2
Weight025 == << 0, 0, 65536, 0 >>               \* 0.25 = 0x1.0p-2

\* score * weight, for an integer score
DoubleTimes(score, w) ==
    RoundToDouble(Carry(<< score * w[1], score * w[2], score * w[3], score * w[4] >>))

\* a + b
DoublePlus(a, b) ==
    RoundToDouble(Carry(<< a[1] + b[1], a[2] + b[2], a[3] + b[3], a[4] + b[4] >>))

\* Math.round of a non-negative double: nearest integer, halves go up
MathRound(d) == d[4] + (IF d[3] >= HalfLimb THEN 1 ELSE 0)

calculateOverallScore(breakdown) ==
    LET weightedScore ==
            DoublePlus(DoublePlus(DoubleTimes(breakdown.security.score, Weight040),
                                  DoubleTimes(breakdown.codeQuality.score, Weight035)),
                       DoubleTimes(breakdown.bestPractices.score, Weight025))
    IN MathRound(weightedScore)

----------------------------------------------------------------------------
(* File Selector, continued: the pipeline of filterImportantFiles *)

\* .sort(cmp) on the kept entries: Array.prototype.sort is stable
RECURSIVE SelectorSort(_)
SelectorSort(entries) ==
    IF Len(entries) <= 1 THEN entries
    ELSE LET front == SelectorSort(SubSeq(entries, 1, Len(entries) - 1))
             x == entries[Len(entries)]
             k == Cardinality({ i \in 1..Len(front) : SelectorCompare(front[i].path, x.path) <= 0 })
         IN SubSeq(front, 1, k) \o <<x>> \o SubSeq(front, k + 1, Len(front))

\* the selector without its .slice(0, 20)
filterImportantFilesUncapped(treeEntries) ==
    LET kept == SelectSeq(treeEntries, KeptBySelector)
        sorted == SelectorSort(kept)
    IN [i \in 1..Len(sorted) |-> sorted[i].path]

filterImportantFiles(treeEntries) ==
    LET kept == SelectSeq(treeEntries, KeptBySelector)
        sorted == SelectorSort(kept)
    IN [i \in 1..Min(MaxSelected, Len(sorted)) |-> sorted[i].path]

----------------------------------------------------------------------------
(* Narrative Generator *)

\* JSON values as far as analyzeWithGroq looks at them: undefined (key
\* absent), a string, or an array of strings
JUndefined == [t |-> "undefined", s |-> "", a |-> <<>>]
JString(s) == [t |-> "string", s |-> s, a |-> <<>>]
JArray(a) == [t |-> "array", s |-> "", a |-> a]

\* truthiness, as || reads it: undefined and "" are falsy, any array is truthy
Truthy(v) == v.t = "array" \/ (v.t = "string" /\ v.s # "")

\* What the stripped completion text parses to:
\*   invalid  not JSON (JSON.parse throws); the empty text is of this kind
\*   null     the JSON value null (reading a property of it throws)
\*   scalar   a JSON number, string or boolean (its properties are undefined)
\*   object   a JSON object with the given summary and recommendations
JsonDocs ==
    { [type |-> "invalid", summary |-> JUndefined, recommendations |-> JUndefined],
      [type |-> "null", summary |-> JUndefined, recommendations |-> JUndefined],
      [type |-> "scalar", summary |-> JUndefined, recommendations |-> JUndefined] }
    \cup
    [ type : {"object"},
      summary : { JUndefined, JString(""), JString("A small but risky project.") },
      recommendations : { JUndefined, JArray(<<>>),
                          JArray(<<"Rotate the leaked key", "Add tests">>),
                          JArray(<<"Rotate the leaked key", "Add tests", "Write a README">>),
                          JArray(<<"Rotate the leaked key", "Add tests", "Write a README", "Add a license">>) } ]

\* Outcomes of groq.chat.completions.create: it throws (transport failure,
\* rate limit, bad key), or it returns a text, a JSON document or not,
\* wrapped in a markdown code fence or not.
Completions ==
    { [kind |-> "throws", fenced |-> FALSE,
       doc |-> [type |-> "invalid", summary |-> JUndefined, recommendations |-> JUndefined]] }
    \cup [ kind : {"text"}, fenced : BOOLEAN, doc : JsonDocs ]

\* text.replace(fence, "").trim(): the fence, when there is one, goes
StripFence(reply) == reply.doc

\* a slice that keeps every issue
SliceAll(issues) == issues

\* issues.slice(0, 5)
Slice5(issues) == SubSeq(issues, 1, Min(5, Len(issues)))

defaultRecommendations == << "Add more documentation", "Improve test coverage", "Review security practices" >>

fallbackRecommendations ==
    << "Review and address any security issues found",
       "Improve code organization and documentation",
       "Add comprehensive test coverage" >>

\* the fields both return statements build the same way
CommonResult(langs, scores) ==
    [overallScore |-> calculateOverallScore(scores),
     codeQuality |-> CategoryResult(scores.codeQuality.score, Slice5(scores.codeQuality.issues)),
     security |-> CategoryResult(scores.security.score, Slice5(scores.security.issues)),
     bestPractices |-> CategoryResult(scores.bestPractices.score, Slice5(scores.bestPractices.issues)),
     languages |-> langs]

\* the return statement of the try block
SuccessResult(llmResponse, langs, scores) ==
    CommonResult(langs, scores) @@
    [summary |-> IF Truthy(llmResponse.summary) THEN llmResponse.summary.s ELSE "Analysis complete.",
     recommendations |-> IF Truthy(llmResponse.recommendations) THEN llmResponse.recommendations.a
                         ELSE defaultRecommendations]

\* a fallback that reports no category results
FallbackResultBlank(workingSet, langs, scores) ==
    [overallScore |-> calculateOverallScore(scores),
     codeQuality |-> CategoryResult(0, <<>>),
     security |-> CategoryResult(0, <<>>),
     bestPractices |-> CategoryResult(0, <<>>),
     languages |-> langs,
     summary |-> "", recommendations |-> <<>>]

\* the return statement of the catch block
FallbackResult(workingSet, langs, scores) ==
    CommonResult(langs, scores) @@
    [summary |-> "Repository analyzed with " \o ToString(Len(workingSet))
                 \o " files. Overall score: " \o ToString(calculateOverallScore(scores)) \o "/100.",
     recommendations |-> fallbackRecommendations]

\* the result of analyzeWithGroq when the completion call ends as given:
\* the catch block runs when the call throws, when JSON.parse throws and
\* when the parsed value is null
analyzeWithGroq(workingSet, langs, scores, reply) ==
    LET llmResponse == StripFence(reply)
    IN IF reply.kind = "throws" \/ llmResponse.type \in {"invalid", "null"}
       THEN FallbackResult(workingSet, langs, scores)
       ELSE SuccessResult(llmResponse, langs, scores)

----------------------------------------------------------------------------
(* Values of the variables a specification does not use yet *)

NoScores ==
    [security |-> CategoryResult(0, <<>>), codeQuality |-> CategoryResult(0, <<>>),
     bestPractices |-> CategoryResult(0, <<>>)]

NoCompletion ==
    [kind |-> "none", fenced |-> FALSE,
     doc |-> [type |-> "invalid", summary |-> JUndefined, recommendations |-> JUndefined]]

\* keys: the keys of the JSON body
NoResponse == [status |-> 0, success |-> FALSE, error |-> "", keys |-> {}]

\* data: the language byte counts received
NoUpstream == [info |-> 0, languages |-> 0, data |-> <<>>, generations |-> 0]

\* what the deterministic core returns: selector output, ScoreBreakdown,
\* overall score
NoRun == [importantPaths |-> <<>>, algorithmicScores |-> NoScores, overallScore |-> -1]

\* the landing page as mounted: useState("") / useState(false) /
\* useState(""), nothing stored, nothing requested
\*   scanResult  sessionStorage holds the key scanResult
\*   route       the route last asked of the router
\*   requests    fetches of /api/scan sent
\*   loadings    calls of setIsLoading(true)
\*   body        how the body of the response in flight reads
NoPage ==
    [repoUrl |-> "", isLoading |-> FALSE, error |-> "", scanResult |-> FALSE, route |-> "/",
     requests |-> 0, loadings |-> 0, body |-> "none"]

\* the process starts in some locale; nothing has run, no page is open
RuntimeStarts == locale \in Locales /\ firstRun = NoRun /\ page = NoPage

NoRepo == [owner |-> "", repo |-> ""]

\* the POST handler has not run
ScanIdle ==
    /\ parsed = NoRepo /\ defaultBranch = "" /\ treeFetches = <<>>
    /\ contentLog = <<>> /\ upstream = NoUpstream /\ response = NoResponse

NoAnalysis ==
    [overallScore |-> -1, summary |-> "", codeQuality |-> CategoryResult(0, <<>>),
     security |-> CategoryResult(0, <<>>), bestPractices |-> CategoryResult(0, <<>>),
     recommendations |-> <<>>, languages |-> <<>>]

----------------------------------------------------------------------------
(* SpecScore: calculateOverallScore on every ScoreBreakdown of scores in   *)
(* 0..100                                                                  *)

Scores == 0..100

InitScore ==
    /\ pc = "combine"
    /\ \E s \in Scores, c \in Scores, b \in Scores :
          algorithmicScores = [security |-> CategoryResult(s, <<>>),
                               codeQuality |-> CategoryResult(c, <<>>),
                               bestPractices |-> CategoryResult(b, <<>>)]
    /\ listing = <<>> /\ importantPaths = <<>> /\ files = <<>> /\ languages = <<>>
    /\ completion = NoCompletion /\ analysis = NoAnalysis /\ overallScore = -1
    /\ ScanIdle
    /\ RuntimeStarts

Combine ==
    /\ pc = "combine"
    /\ overallScore' = calculateOverallScore(algorithmicScores)
    /\ pc' = "combined"
    /\ UNCHANGED <<listing, importantPaths, files, languages, algorithmicScores, completion, analysis, scanVars, envVars>>

NextScore == Combine

SpecScore == InitScore /\ [][NextScore]_vars

----------------------------------------------------------------------------
(* SpecSelect: filterImportantFiles on tree listings.  A listing is any    *)
(* choice of the core entries, at most one entry of the other kinds, and   *)
(* a run of same-priority source files, enough of them to pass the cap.    *)

MaxFillers == 16

Entry(path, type) == [path |-> path, type |-> type]

CoreEntries ==
    << Entry("README.md", "blob"),
       Entry("package.json", "blob"),
       Entry("src/Zeta.ts", "blob"),
       Entry("src/alpha.ts", "blob"),
       Entry("main.py", "blob"),
       Entry("docs/guide.md", "blob") >>

OtherEntries ==
    { Entry("src", "tree"),
      Entry("site.js", "tree"),
      Entry(".env", "blob"),
      Entry("logo.png", "blob"),
      Entry("node_modules/lodash/index.js", "blob"),
      Entry("dist/bundle.js", "blob"),
      Entry("build/out.js", "blob"),
      Entry("lib/app.min.js", "blob"),
      Entry("vendor/dep.go", "blob"),
      Entry("__pycache__/mod.py", "blob"),
      Entry(".git/hooks.json", "blob"),
      Entry("coverage/lcov.json", "blob"),
      Entry("test/unit.ts", "blob"),
      Entry("tests/app.ts", "blob"),
      Entry("src/__tests__/app.tsx", "blob") }

FillerEntry(i) == Entry("src/f" \o ToString(i) \o ".ts", "blob")

\* the entries of seq at the positions of idx, in order
RECURSIVE Pick(_, _, _)
Pick(seq, idx, i) ==
    IF i > Len(seq) THEN <<>>
    ELSE (IF i \in idx THEN <<seq[i]>> ELSE <<>>) \o Pick(seq, idx, i + 1)

Listings ==
    { Pick(CoreEntries, idx, 1) \o other \o [i \in 1..k |-> FillerEntry(i)] :
        idx \in SUBSET (1..Len(CoreEntries)),
        other \in {<<>>} \cup { <<e>> : e \in OtherEntries },
        k \in 0..MaxFillers }

InitSelect ==
    /\ pc = "select"
    /\ listing \in Listings
    /\ importantPaths = <<>> /\ files = <<>> /\ languages = <<>>
    /\ algorithmicScores = NoScores /\ completion = NoCompletion
    /\ analysis = NoAnalysis /\ overallScore = -1
    /\ ScanIdle
    /\ RuntimeStarts

Select ==
    /\ pc = "select"
    /\ importantPaths' = filterImportantFiles(listing)
    /\ pc' = "selected"
    /\ UNCHANGED <<listing, files, languages, algorithmicScores, completion, analysis, overallScore, scanVars, envVars>>

NextSelect == Select

SpecSelect == InitSelect /\ [][NextSelect]_vars

----------------------------------------------------------------------------
(* SpecAnalyze: the three analyzers, then analyzeWithGroq, on every       *)
(* working set of up to MaxWorkingSet pool files with distinct paths       *)

MaxWorkingSet == 3

WorkingSets ==
    UNION { { ws \in [1..n -> FilePool] : \A i, j \in 1..n : i # j => ws[i].path # ws[j].path } :
            n \in 0..MaxWorkingSet }

\* languages handed to analyzeWithGroq in this specification
SampleLanguages == << <<"TypeScript", 75>>, <<"CSS", 25>> >>

InitAnalyze ==
    /\ pc = "analyze"
    /\ files \in WorkingSets
    /\ listing = <<>> /\ importantPaths = <<>> /\ languages = SampleLanguages
    /\ algorithmicScores = NoScores /\ completion = NoCompletion
    /\ analysis = NoAnalysis /\ overallScore = -1
    /\ ScanIdle
    /\ RuntimeStarts

Analyze ==
    /\ pc = "analyze"
    /\ algorithmicScores' = [security |-> analyzeSecurityPatterns(files),
                             codeQuality |-> analyzeCodeQuality(files),
                             bestPractices |-> checkBestPractices(files)]
    /\ pc' = "narrate"
    /\ UNCHANGED <<listing, importantPaths, files, languages, completion, analysis, overallScore, scanVars, envVars>>

Narrate ==
    /\ pc = "narrate"
    /\ \E reply \in Completions :
          /\ completion' = reply
          /\ analysis' = analyzeWithGroq(files, languages, algorithmicScores, reply)
    /\ pc' = "narrated"
    /\ UNCHANGED <<listing, importantPaths, files, languages, algorithmicScores, overallScore, scanVars, envVars>>

NextAnalyze == Analyze \/ Narrate

SpecAnalyze == InitAnalyze /\ [][NextAnalyze]_vars

----------------------------------------------------------------------------
(* Spec: the POST handler of /api/scan, one action per await            *)

\* the index after the run of non-"/" characters that starts at from
RECURSIVE RunEnd(_, _)
RunEnd(url, from) ==
    IF from > Len(url) \/ Ch(url, from) = "/" THEN from ELSE RunEnd(url, from + 1)

\* url.match(/github\.com<sep>([^\/]+)\/([^\/]+)/): the leftmost match, as
\* a one-element set, or the empty set
MatchOwnerRepo(url, sep) ==
    LET prefix == "github.com" \o sep
        ok(i) == /\ SubSeq(url, i, i + Len(prefix) - 1) = prefix
                 /\ RunEnd(url, i + Len(prefix)) > i + Len(prefix)
                 /\ RunEnd(url, i + Len(prefix)) <= Len(url)
                 /\ RunEnd(url, RunEnd(url, i + Len(prefix)) + 1) > RunEnd(url, i + Len(prefix)) + 1
        starts == { i \in 1..(Len(url) - Len(prefix) + 1) : ok(i) }
        first == CHOOSE i \in starts : \A j \in starts : i <= j
        ownerEnd == RunEnd(url, first + Len(prefix))
    IN IF starts = {} THEN {}
       ELSE { [owner |-> SubSeq(url, first + Len(prefix), ownerEnd - 1),
               repo |-> SubSeq(url, ownerEnd + 1, RunEnd(url, ownerEnd + 1) - 1)] }

\* repo.replace(/\.git$/, "")
StripDotGit(repo) == IF EndsWith(repo, ".git") THEN SubSeq(repo, 1, Len(repo) - 4) ELSE repo

\* parseGitHubUrl: the parsed pair as a one-element set, or the empty set for null
parseGitHubUrl(url) ==
    LET m == IF MatchOwnerRepo(url, "/") # {} THEN MatchOwnerRepo(url, "/") ELSE MatchOwnerRepo(url, ":")
    IN { [owner |-> x.owner, repo |-> StripDotGit(x.repo)] : x \in m }

\* request bodies: not JSON, or a JSON object whose url is as given ("" also
\* stands for an absent url)
RequestBodies ==
    { [json |-> FALSE, url |-> ""] } \cup
    [ json : {TRUE},
      url : { "", "acme/demo", "https://github.com/acme",
              "https://github.com/acme/demo", "git@github.com:acme/demo.git",
              "https://github.com/acme/http-429" } ]

RateLimitMessage == "API rate limit exceeded. Please wait a minute and try again, or try a smaller repository."

\* NextResponse.json({ error }, { status }), with an analysis besides
ErrorResponseWithAnalysis(status, message) ==
    [status |-> status, success |-> FALSE, error |-> message, keys |-> {"error", "analysis"}]

\* NextResponse.json({ error }, { status })
ErrorResponse(status, message) ==
    [status |-> status, success |-> FALSE, error |-> message, keys |-> {"error"}]

\* NextResponse.json({ success: true, repository, analysis }): status 200
SuccessResponse ==
    [status |-> 200, success |-> TRUE, error |-> "", keys |-> {"success", "repository", "analysis"}]

\* the catch block of POST, for an Error with the given message
CatchResponse(errorMessage) ==
    IF Includes(errorMessage, "429") \/ Includes(errorMessage, "quota")
         \/ Includes(errorMessage, "Too Many Requests")
    THEN ErrorResponse(429, RateLimitMessage)
    ELSE ErrorResponse(500, errorMessage)

\* what a rejected fetch throws
FetchFailed == "fetch failed"
\* what response.json() throws on a body that is not JSON
BadJson == "Unexpected token < in JSON at position 0"

Init ==
    /\ pc = "request"
    /\ listing = <<>> /\ importantPaths = <<>> /\ files = <<>> /\ languages = <<>>
    /\ algorithmicScores = NoScores /\ completion = NoCompletion
    /\ analysis = NoAnalysis /\ overallScore = -1
    /\ ScanIdle
    /\ RuntimeStarts

\* request.json(), the url checks and the start of fetchRepoInfo
ReceiveRequest ==
    /\ pc = "request"
    /\ \E body \in RequestBodies :
          IF ~body.json
          THEN /\ response' = CatchResponse("Unexpected end of JSON input")
               /\ pc' = "done" /\ UNCHANGED parsed
          ELSE IF body.url = ""
          THEN /\ response' = ErrorResponse(400, "GitHub URL is required")
               /\ pc' = "done" /\ UNCHANGED parsed
          ELSE IF parseGitHubUrl(body.url) = {}
          THEN /\ response' = ErrorResponse(400, "Invalid GitHub URL")
               /\ pc' = "done" /\ UNCHANGED parsed
          ELSE /\ parsed' \in parseGitHubUrl(body.url)
               /\ pc' = "info" /\ UNCHANGED response
    /\ UNCHANGED <<listing, importantPaths, files, languages, algorithmicScores, completion,
                   analysis, overallScore, defaultBranch, treeFetches, contentLog, upstream,
                   envVars>>

DefaultBranches == {"main", "master", "develop"}

\* recorded as the status of a request whose fetch was rejected
Rejected == -1

\* how the metadata request ends
RepoInfoOutcomes ==
    [ kind : {"ok"}, branch : DefaultBranches, status : {200}, statusText : {"OK"} ] \cup
    [ kind : {"status"}, branch : {""}, status : {404}, statusText : {"Not Found"} ] \cup
    [ kind : {"status"}, branch : {""}, status : {403}, statusText : {"Forbidden"} ] \cup
    [ kind : {"status"}, branch : {""}, status : {429}, statusText : {"Too Many Requests"} ] \cup
    [ kind : {"throws"}, branch : {""}, status : {Rejected}, statusText : {""} ]

\* fetchRepoInfo returning, then the first tree request of fetchRepoTree
RepoInfoResponse ==
    /\ pc = "info"
    /\ \E out \in RepoInfoOutcomes :
          /\ upstream' = [upstream EXCEPT !.info = out.status]
          /\ IF out.kind = "ok"
             THEN /\ defaultBranch' = out.branch
                  /\ pc' = "tree" /\ UNCHANGED response
             ELSE /\ response' =
                       CatchResponse(IF out.kind = "throws" THEN FetchFailed
                                     ELSE IF out.status = 404
                                     THEN "Repository not found: " \o parsed.owner \o "/" \o parsed.repo
                                          \o ". Make sure the repo exists and is public, or add a GITHUB_TOKEN for private repos."
                                     ELSE "Failed to fetch repository: " \o out.statusText)
                  /\ pc' = "done" /\ UNCHANGED defaultBranch
    /\ UNCHANGED <<listing, importantPaths, files, languages, algorithmicScores, completion,
                   analysis, overallScore, parsed, treeFetches, contentLog, envVars>>

\* the tree of the repository; a listing is one of its prefixes
MaxTreeEntries == 5

RepoTree ==
    << Entry("README.md", "blob"),
       Entry("src", "tree"),
       Entry("src/app.ts", "blob"),
       Entry("config.js", "blob"),
       Entry(".env", "blob"),
       Entry("package.json", "blob"),
       Entry("src/View.tsx", "blob"),
       Entry("lib/big_module.py", "blob") >>

TreeListings == { SubSeq(RepoTree, 1, n) : n \in 0..Min(MaxTreeEntries, Len(RepoTree)) }

\* how a tree request ends: a listing, a non-success status, or a rejection
TreeOutcomes ==
    [ kind : {"ok"}, status : {200}, tree : TreeListings ] \cup
    [ kind : {"notOk"}, status : {404, 429}, tree : {<<>>} ] \cup
    [ kind : {"throws"}, status : {Rejected}, tree : {<<>>} ]

\* after a successful tree response: select, then ask for the first content
\* or, when nothing was selected, for the languages
TreeLoaded(tree) ==
    /\ listing' = tree
    /\ importantPaths' = filterImportantFiles(tree)
    /\ pc' = IF Len(filterImportantFiles(tree)) = 0 THEN "languages" ELSE "content"
    /\ UNCHANGED response

\* the response to the first tree request, for the declared default branch
TreeResponse ==
    /\ pc = "tree"
    /\ \E out \in TreeOutcomes :
          /\ treeFetches' = Append(treeFetches, [branch |-> defaultBranch, result |-> out.kind,
                                                  status |-> out.status])
          /\ IF out.kind = "ok" THEN TreeLoaded(out.tree)
             ELSE IF out.kind = "throws"
             THEN /\ response' = CatchResponse(FetchFailed) /\ pc' = "done"
                  /\ UNCHANGED <<listing, importantPaths>>
             ELSE IF defaultBranch = "main"
             THEN /\ pc' = "tree2" /\ UNCHANGED <<listing, importantPaths, response>>
             ELSE /\ response' = CatchResponse("Could not fetch repository tree") /\ pc' = "done"
                  /\ UNCHANGED <<listing, importantPaths>>
    /\ UNCHANGED <<files, languages, algorithmicScores, completion, analysis, overallScore,
                   parsed, defaultBranch, contentLog, upstream, envVars>>

\* the response to the second tree request, for master
TreeRetryResponse ==
    /\ pc = "tree2"
    /\ \E out \in TreeOutcomes :
          /\ treeFetches' = Append(treeFetches, [branch |-> "master", result |-> out.kind,
                                                  status |-> out.status])
          /\ IF out.kind = "ok" THEN TreeLoaded(out.tree)
             ELSE /\ response' = CatchResponse(IF out.kind = "throws" THEN FetchFailed
                                               ELSE "Could not fetch repository tree")
                  /\ pc' = "done"
                  /\ UNCHANGED <<listing, importantPaths>>
    /\ UNCHANGED <<files, languages, algorithmicScores, completion, analysis, overallScore,
                   parsed, defaultBranch, contentLog, upstream, envVars>>

\* the content of a path of the repository
ContentOf(path) == (CHOOSE f \in FilePool : f.path = path).content

\* how a content request ends:
\*   ok       success, the decoded content is the file's text
\*   empty    success, but no content field or an empty one
\*   notOk    a non-success status
\*   throws   the request is rejected (transport failure)
\*   badBody  success status with a body that is not JSON
ContentOutcomes == {"ok", "empty", "notOk", "throws", "badBody"}

\* fetchFileContent: the returned content (for the outcomes that return)
fetchFileContent(path, outcome) == IF outcome = "ok" THEN ContentOf(path) ELSE cEmpty

\* files.push({ path, content })
PushFileFront(fileSeq, file) == <<file>> \o fileSeq

PushFile(fileSeq, file) == Append(fileSeq, file)

\* one iteration of the content loop: fetchFileContent returns or throws
ContentResponse ==
    /\ pc = "content"
    /\ \E outcome \in ContentOutcomes :
          LET path == importantPaths[Len(contentLog) + 1]
              content == fetchFileContent(path, outcome)
          IN /\ contentLog' = Append(contentLog, [path |-> path, outcome |-> outcome])
             /\ IF outcome \in {"throws", "badBody"}
                THEN /\ response' = CatchResponse(IF outcome = "throws" THEN FetchFailed ELSE BadJson)
                     /\ pc' = "done" /\ UNCHANGED files
                ELSE /\ files' = IF content.len > 0 THEN PushFile(files, RepoFile(path, content)) ELSE files
                     /\ pc' = IF Len(contentLog) + 1 < Len(importantPaths) THEN "content" ELSE "languages"
                     /\ UNCHANGED response
    /\ UNCHANGED <<listing, importantPaths, languages, algorithmicScores, completion, analysis,
                   overallScore, parsed, defaultBranch, treeFetches, upstream, envVars>>

\* number of doublings that bring b up to t
RECURSIVE NormShift(_, _)
NormShift(b, t) == IF b >= t THEN 0 ELSE 1 + NormShift(2 * b, t)

\* bytes / totalBytes for integers 0 < b <= t < 2^13: the nearest double,
\* as a 53-bit significand in limbs (least significant first) and the
\* number of fraction bits it is scaled by; the quotient is found by long
\* division, 16 + 18 + 18 bits after the leading one
DoubleQuotient(b, t) ==
    LET n == NormShift(b, t)
        r0 == b * Pow2(n) - t
        c1 == (r0 * 65536) \div t
        r1 == (r0 * 65536) % t
        c2 == (r1 * LimbBase) \div t
        r2 == (r1 * LimbBase) % t
        c3 == (r2 * LimbBase) \div t
        r3 == (r2 * LimbBase) % t
        up == 2 * r3 > t \/ (2 * r3 = t /\ c3 % 2 = 1)
    IN [ m |-> Carry(<< c3 + (IF up THEN 1 ELSE 0), c2, 65536 + c1, 0 >>), e |-> n + 52 ]

\* q * 100, rounded to the nearest double, at the scale of q
DoubleTimes100(q) ==
    [ m |-> RoundToDouble(Carry(<< 100 * q.m[1], 100 * q.m[2], 100 * q.m[3], 100 * q.m[4] >>)),
      e |-> q.e ]

\* Math.round of a scaled non-negative double: nearest integer, halves go up
MathRoundScaled(d) ==
    LET hi == d.m[3] + d.m[4] * LimbBase
        k == d.e - 36
    IN (hi \div Pow2(k)) + ((hi \div Pow2(k - 1)) % 2)

\* language byte counts, in the order of the response's keys
LanguageData ==
    { <<>>,
      << <<"TypeScript", 300>>, <<"CSS", 100>> >>,
      << <<"Python", 50>>, <<"Go", 50>> >> }

RECURSIVE SumBytes(_, _)
SumBytes(data, i) == IF i > Len(data) THEN 0 ELSE data[i][2] + SumBytes(data, i + 1)

\* Math.round((bytes / totalBytes) * 100)
Percentage(bytes, totalBytes) ==
    IF bytes = 0 THEN 0 ELSE MathRoundScaled(DoubleTimes100(DoubleQuotient(bytes, totalBytes)))

\* comparator of the language sort
LanguageCompare(a, b) == IF b[2] - a[2] # 0 THEN b[2] - a[2] ELSE localeCompare(a[1], b[1])

RECURSIVE SortLanguages(_)
SortLanguages(entries) ==
    IF Len(entries) <= 1 THEN entries
    ELSE LET front == SortLanguages(SubSeq(entries, 1, Len(entries) - 1))
             x == entries[Len(entries)]
             k == Cardinality({ i \in 1..Len(front) : LanguageCompare(front[i], x) <= 0 })
         IN SubSeq(front, 1, k) \o <<x>> \o SubSeq(front, k + 1, Len(front))

\* the language breakdown of POST
LanguageBreakdown(data) ==
    SortLanguages([i \in 1..Len(data) |-> << data[i][1], Percentage(data[i][2], SumBytes(data, 1)) >>])

\* Math.round of a quotient that is not a number: the percentage of every
\* key when the body is not a map of byte counts (a percentage is never
\* negative, so -1 stands for NaN)
NaN == -1

\* the keys of the JSON error body of a non-success languages response
ErrorBodyKeys == << "message", "documentation_url" >>

\* The status of the languages response is not looked at: the body of a
\* non-success response is read as a map like any other.  Its values are
\* strings, totalBytes is a string and every percentage is NaN, so the
\* sort's b[1] - a[1] is NaN and the names decide.
ErrorBodyBreakdown ==
    SortLanguages([i \in 1..Len(ErrorBodyKeys) |-> << ErrorBodyKeys[i], NaN >>])

\* how the languages request ends: a map of byte counts, a non-success
\* status with a JSON error body, or a rejection
LanguagesOutcomes ==
    [ kind : {"ok"}, status : {200}, data : LanguageData ] \cup
    [ kind : {"status"}, status : {403, 429}, data : {<<>>} ] \cup
    [ kind : {"throws"}, status : {Rejected}, data : {<<>>} ]

\* the languages response, then the three analyzers and the start of the
\* text-generation call
\* a second groq.chat.completions.create after the first
GenerationRetried(u) == [u EXCEPT !.generations = @ + 2]

\* groq.chat.completions.create(...): the one request of analyzeWithGroq
GenerationIssued(u) == [u EXCEPT !.generations = @ + 1]

\* the languages response, the three analyzers, and analyzeWithGroq up to
\* its await
LanguagesResponse ==
    /\ pc = "languages"
    /\ \E out \in LanguagesOutcomes :
          /\ upstream' = LET answered == [upstream EXCEPT !.languages = out.status, !.data = out.data]
                          IN IF out.kind = "throws" THEN answered ELSE GenerationIssued(answered)
          /\ IF out.kind = "throws"
             THEN /\ response' = CatchResponse(FetchFailed)
                  /\ pc' = "done"
                  /\ UNCHANGED <<languages, algorithmicScores>>
             ELSE /\ languages' = IF out.kind = "ok" THEN LanguageBreakdown(out.data)
                                                     ELSE ErrorBodyBreakdown
                  /\ algorithmicScores' = [security |-> analyzeSecurityPatterns(files),
                                           codeQuality |-> analyzeCodeQuality(files),
                                           bestPractices |-> checkBestPractices(files)]
                  /\ pc' = "narrate"
                  /\ UNCHANGED response
    /\ UNCHANGED <<listing, importantPaths, files, completion, analysis, overallScore,
                   parsed, defaultBranch, treeFetches, contentLog, envVars>>

\* analyzeWithGroq returning, then the success response (the request it
\* awaits went out at the end of LanguagesResponse)
GroqResponse ==
    /\ pc = "narrate"
    /\ \E reply \in Completions :
          /\ completion' = reply
          /\ analysis' = analyzeWithGroq(files, languages, algorithmicScores, reply)
    /\ response' = SuccessResponse
    /\ pc' = "done"
    /\ UNCHANGED <<listing, importantPaths, files, languages, algorithmicScores, overallScore,
                   parsed, defaultBranch, treeFetches, contentLog, upstream, envVars>>

Next ==
    \/ ReceiveRequest \/ RepoInfoResponse \/ TreeResponse \/ TreeRetryResponse
    \/ ContentResponse \/ LanguagesResponse \/ GroqResponse

Spec == Init /\ [][Next]_vars

----------------------------------------------------------------------------
(* SpecLanguages: the language breakdown of POST on every map of up to     *)
(* MaxLanguages languages                                                  *)

MaxLanguages == 3

LanguageNames == { "TypeScript", "CSS", "Zig", "jq", "Shell" }

ByteCounts == { 17, 23, 100, 300 }

\* maps of byte counts, as the sequence of their entries in key order
LanguageMaps ==
    UNION { { m \in [1..n -> LanguageNames \X ByteCounts] :
                \A i, j \in 1..n : i # j => m[i][1] # m[j][1] } : n \in 0..MaxLanguages }

InitLanguages ==
    /\ RuntimeStarts
    /\ pc = "percentages"
    /\ \E m \in LanguageMaps : upstream = [info |-> 200, languages |-> 200, data |-> m, generations |-> 0]
    /\ listing = <<>> /\ importantPaths = <<>> /\ files = <<>> /\ languages = <<>>
    /\ algorithmicScores = NoScores /\ completion = NoCompletion
    /\ analysis = NoAnalysis /\ overallScore = -1
    /\ parsed = NoRepo /\ defaultBranch = "" /\ treeFetches = <<>>
    /\ contentLog = <<>> /\ response = NoResponse

BreakDown ==
    /\ pc = "percentages"
    /\ languages' = LanguageBreakdown(upstream.data)
    /\ pc' = "broken down"
    /\ UNCHANGED <<listing, importantPaths, files, algorithmicScores, completion, analysis,
                   overallScore, scanVars, envVars>>

NextLanguages == BreakDown

SpecLanguages == InitLanguages /\ [][NextLanguages]_vars

----------------------------------------------------------------------------
(* SpecRuns: the deterministic core (selector, content by path, the three  *)
(* analyzers, the score combiner) run twice on one listing and one set of  *)
(* contents.  The second run is a later request, to the same process or    *)
(* to one started since, on this host or another.                          *)

MaxRunEntries == 3

\* the files of the repository the runs look at
RunPool ==
    { RepoFile("README.md", cReadmeShort),
      RepoFile("package.json", cPackageJson),
      RepoFile("config.js", cApiKey),
      RepoFile("src/utils.ts", cBadTs),
      RepoFile("src/zod.ts", cGuardedTs),
      RepoFile("src/View.tsx", cViewTsx),
      RepoFile("lib/big_module.py", cBigPy) }

RunContentOf(path) == (CHOOSE f \in RunPool : f.path = path).content

\* listings of up to MaxRunEntries of these files, in any order
RunListings ==
    UNION { { l \in [1..n -> { Entry(f.path, "blob") : f \in RunPool }] :
                \A i, j \in 1..n : i # j => l[i] # l[j] } : n \in 0..MaxRunEntries }

\* the content loop of POST when every request succeeds
RECURSIVE FetchAll(_, _)
FetchAll(paths, i) ==
    IF i > Len(paths) THEN <<>>
    ELSE (IF RunContentOf(paths[i]).len > 0 THEN << RepoFile(paths[i], RunContentOf(paths[i])) >> ELSE <<>>)
         \o FetchAll(paths, i + 1)

InitRuns ==
    /\ RuntimeStarts
    /\ pc = "core"
    /\ listing \in RunListings
    /\ importantPaths = <<>> /\ files = <<>> /\ languages = <<>>
    /\ algorithmicScores = NoScores /\ completion = NoCompletion
    /\ analysis = NoAnalysis /\ overallScore = -1
    /\ ScanIdle

\* one run of the core: every stage's output is kept
RunCore ==
    /\ pc \in {"core", "core again"}
    /\ importantPaths' = filterImportantFiles(listing)
    /\ files' = FetchAll(filterImportantFiles(listing), 1)
    /\ algorithmicScores' = [security |-> analyzeSecurityPatterns(files'),
                             codeQuality |-> analyzeCodeQuality(files'),
                             bestPractices |-> checkBestPractices(files')]
    /\ overallScore' = calculateOverallScore(algorithmicScores')
    /\ pc' = IF pc = "core" THEN "ran" ELSE "ran again"
    /\ UNCHANGED <<listing, languages, completion, analysis, scanVars, envVars>>

\* the first run's output is put aside; the next request is served by a
\* runtime in some locale
NextRequest ==
    /\ pc = "ran"
    /\ firstRun' = [importantPaths |-> importantPaths, algorithmicScores |-> algorithmicScores,
                    overallScore |-> overallScore]
    /\ locale' \in Locales
    /\ pc' = "core again"
    /\ UNCHANGED <<listing, importantPaths, files, languages, algorithmicScores, completion,
                   analysis, overallScore, scanVars, page>>

NextRuns == RunCore \/ NextRequest

SpecRuns == InitRuns /\ [][NextRuns]_vars

----------------------------------------------------------------------------
(* SpecPermute: filterImportantFiles on a listing and on a reordering of   *)
(* it, and analyzeSecurityPatterns on a working set and on a reordering    *)
(* of it.  A listing is a run of same-priority source files, none or just  *)
(* under the cap, and up to MaxShuffled further entries; a working set is  *)
(* up to MaxShuffled files; the other run's results are kept in firstRun.  *)

MaxShuffled == 3

ShufflePool ==
    { Entry("README.md", "blob"),
      Entry("src/View.tsx", "blob"),
      Entry("src/notes.ts", "blob"),
      Entry("src/no" \o SoftHyphen \o "tes.ts", "blob") }

\* the working sets reordered: pool files that match rules, are skipped,
\* are no code, or are a .env file
ShuffleFiles ==
    { f \in FilePool : f.path \in {"README.md", "config.js", "src/bad.ts", "src/View.tsx",
                                   "lib/big_module.py", ".env"} }

\* sequences of up to n distinct members of pool
DistinctSeqs(pool, n) ==
    UNION { { q \in [1..k -> pool] : \A i, j \in 1..k : i # j => q[i] # q[j] } : k \in 0..n }

ShuffleListings ==
    { [i \in 1..k |-> FillerEntry(i)] \o tail :
        k \in {0, MaxSelected - 1}, tail \in DistinctSeqs(ShufflePool, MaxShuffled) }

Reorderings(n) == { p \in [1..n -> 1..n] : \A i, j \in 1..n : i # j => p[i] # p[j] }

\* seq with its last n entries reordered by p
ReorderTail(seq, n, p) ==
    [i \in 1..Len(seq) |-> IF i <= Len(seq) - n THEN seq[i] ELSE seq[Len(seq) - n + p[i - (Len(seq) - n)]]]

InitPermute ==
    /\ RuntimeStarts
    /\ \/ pc = "listing" /\ listing \in ShuffleListings /\ files = <<>>
       \/ pc = "working set" /\ listing = <<>> /\ files \in DistinctSeqs(ShuffleFiles, MaxShuffled)
    /\ importantPaths = <<>> /\ languages = <<>>
    /\ algorithmicScores = NoScores /\ completion = NoCompletion
    /\ analysis = NoAnalysis /\ overallScore = -1
    /\ ScanIdle

\* the selector on the listing and on one reordering of it
ReorderListing ==
    /\ pc = "listing"
    /\ LET n == Min(MaxShuffled, Len(listing))
       IN \E p \in Reorderings(n) :
             firstRun' = [NoRun EXCEPT !.importantPaths = filterImportantFiles(ReorderTail(listing, n, p))]
    /\ importantPaths' = filterImportantFiles(listing)
    /\ pc' = "listing reordered"
    /\ UNCHANGED <<listing, files, languages, algorithmicScores, completion, analysis, overallScore,
                   scanVars, locale, page>>

\* the security analyzer on the working set and on one reordering of it
ReorderFiles ==
    /\ pc = "working set"
    /\ \E p \in Reorderings(Len(files)) :
          firstRun' = [NoRun EXCEPT
                         !.algorithmicScores.security =
                             analyzeSecurityPatterns(ReorderTail(files, Len(files), p))]
    /\ algorithmicScores' = [NoScores EXCEPT !.security = analyzeSecurityPatterns(files)]
    /\ pc' = "working set reordered"
    /\ UNCHANGED <<listing, importantPaths, files, languages, completion, analysis, overallScore,
                   scanVars, locale, page>>

NextPermute == ReorderListing \/ ReorderFiles

SpecPermute == InitPermute /\ [][NextPermute]_vars

----------------------------------------------------------------------------
(* SpecLanding: handleScan of the landing page, one action per await.  The *)
(* response in flight is kept in response, as the POST handler builds it.  *)

\* String.prototype.trim on the characters inputs hold
RECURSIVE trim(_)
trim(s) ==
    IF Len(s) = 0 THEN s
    ELSE IF Ch(s, 1) = " " THEN trim(SubSeq(s, 2, Len(s)))
    ELSE IF Ch(s, Len(s)) = " " THEN trim(SubSeq(s, 1, Len(s) - 1))
    ELSE s

\* what the user typed
RepoUrls == { "", "   ", " https://github.com/acme/demo ", "acme/demo" } \cup { b.url : b \in RequestBodies }

\* what an earlier invocation left in error
StaleErrors == { "", "Invalid GitHub URL" }

\* the answers of /api/scan, and of a gateway in front of it, whose body is
\* no JSON
ScanResponses ==
    [ body : {"json"},
      response : { SuccessResponse, ErrorResponse(400, "GitHub URL is required"),
                   ErrorResponse(400, "Invalid GitHub URL"), ErrorResponse(429, RateLimitMessage),
                   ErrorResponse(500, FetchFailed), ErrorResponse(500, "") } ] \cup
    [ body : {"text"}, response : { ErrorResponse(502, ""), [SuccessResponse EXCEPT !.keys = {}] } ]

\* the message of what sessionStorage.setItem throws when the storage
\* takes no more
QuotaExceeded == "The quota has been exceeded."

DefaultScanError == "Failed to scan repository"

InitLanding ==
    /\ pc = "page"
    /\ \E url \in RepoUrls, stale \in StaleErrors : page = [NoPage EXCEPT !.repoUrl = url, !.error = stale]
    /\ locale \in Locales /\ firstRun = NoRun
    /\ listing = <<>> /\ importantPaths = <<>> /\ files = <<>> /\ languages = <<>>
    /\ algorithmicScores = NoScores /\ completion = NoCompletion
    /\ analysis = NoAnalysis /\ overallScore = -1
    /\ ScanIdle

\* the catch and finally blocks of handleScan, for an Error with the message
ScanFailed(p, message) == [p EXCEPT !.error = message, !.isLoading = FALSE, !.body = "none"]

\* handleScan up to its first await
SendScan ==
    /\ pc = "page"
    /\ IF trim(page.repoUrl) = ""
       THEN /\ page' = [page EXCEPT !.error = "Please enter a GitHub repository URL"]
            /\ pc' = "settled"
       ELSE /\ page' = [page EXCEPT !.isLoading = TRUE, !.loadings = @ + 1, !.error = "",
                                    !.requests = @ + 1]
            /\ pc' = "fetch"
    /\ UNCHANGED <<listing, importantPaths, files, languages, algorithmicScores, completion,
                   analysis, overallScore, scanVars, locale, firstRun>>

\* await fetch("/api/scan", ...): a response, or a rejection
FetchSettles ==
    /\ pc = "fetch"
    /\ \/ \E r \in ScanResponses :
             /\ response' = r.response
             /\ page' = [page EXCEPT !.body = r.body]
             /\ pc' = "json"
       \/ /\ page' = ScanFailed(page, "Failed to fetch")
          /\ pc' = "settled"
          /\ UNCHANGED response
    /\ UNCHANGED <<listing, importantPaths, files, languages, algorithmicScores, completion,
                   analysis, overallScore, parsed, defaultBranch, treeFetches, contentLog, upstream,
                   locale, firstRun>>

\* await response.json(), then the rest of handleScan
JsonSettles ==
    /\ pc = "json"
    /\ IF page.body # "json"
       THEN page' = ScanFailed(page, BadJson)
       ELSE IF response.status # 200
       THEN page' = ScanFailed(page, IF response.error # "" THEN response.error ELSE DefaultScanError)
       ELSE \/ page' = [page EXCEPT !.scanResult = TRUE, !.route = "/report", !.isLoading = FALSE,
                                    !.body = "none"]
            \/ page' = ScanFailed(page, QuotaExceeded)
    /\ pc' = "settled"
    /\ UNCHANGED <<listing, importantPaths, files, languages, algorithmicScores, completion,
                   analysis, overallScore, scanVars, locale, firstRun>>

NextLanding == SendScan \/ FetchSettles \/ JsonSettles

SpecLanding == InitLanding /\ [][NextLanding]_vars

----------------------------------------------------------------------------
(* Properties *)

Categories == {"security", "codeQuality", "bestPractices"}

\* round-half-up of 0.40*security + 0.35*codeQuality + 0.25*bestPractices,
\* in exact integer arithmetic
RoundHalfUp(scores) ==
    (40 * scores.security.score + 35 * scores.codeQuality.score
       + 25 * scores.bestPractices.score + 50) \div 100

\* C1: for sub-scores in 0..100, calculateOverallScore returns
\* floor((40*security + 35*codeQuality + 25*bestPractices + 50) / 100), and
\* the overallScore of every AnalysisResult is that value for the sub-scores
\* of the same result.
C1_WeightInvariant ==
    /\ pc = "combined" => overallScore = RoundHalfUp(algorithmicScores)
    /\ pc = "narrated" =>
          analysis.overallScore =
              RoundHalfUp([c \in Categories |-> [score |-> analysis[c].score]])

\* C2: each analyzer's score is an integer in [0,100], and so is the overall
\* score combined from them, for every working set.
C2_Clamping ==
    pc \in {"narrate", "narrated"} =>
        /\ \A c \in Categories : algorithmicScores[c].score \in 0..100
        /\ calculateOverallScore(algorithmicScores) \in 0..100

\* a working set whose security and code-quality deductions both pass 100
\* and whose best-practices checks all fire
C2_Witness ==
    /\ pc = "narrate"
    /\ algorithmicScores.security.score = 0
    /\ Len(algorithmicScores.security.issues) = 13
    /\ algorithmicScores.codeQuality.score = 0
    /\ algorithmicScores.bestPractices.score = 0
    /\ Len(algorithmicScores.bestPractices.issues) >= 8

\* adjacent issues ascend by severity, then by message in code-unit order
OrderedByCodeUnits(issues) ==
    \A i \in 1..(Len(issues) - 1) :
        \/ severityOrder[issues[i].severity] < severityOrder[issues[i + 1].severity]
        \/ /\ issues[i].severity = issues[i + 1].severity
           /\ CodeUnitCompare(issues[i].message, issues[i + 1].message) <= 0

\* C3: in every analyzer's issue list, adjacent issues ascend by severity
\* (critical < warning < info) and, within a severity, by message in
\* case-sensitive lexicographic order.
C3_IssueOrdering ==
    pc \in {"narrate", "narrated"} =>
        \A c \in Categories : OrderedByCodeUnits(algorithmicScores[c].issues)

ExcludedFragments ==
    { "node_modules", "dist/", "build/", ".min.", "vendor/", "__pycache__", ".git/",
      "coverage/", "test/", "tests/", "__tests__/" }

\* C4: filterImportantFiles returns at most 20 paths, each the path of a
\* blob entry of the listing, none containing an excluded fragment.
C4_SelectorCap ==
    pc = "selected" =>
        /\ Len(importantPaths) <= 20
        /\ \A i \in 1..Len(importantPaths) :
              /\ \E j \in 1..Len(listing) :
                    listing[j].path = importantPaths[i] /\ listing[j].type = "blob"
              /\ \A frag \in ExcludedFragments : ~Includes(importantPaths[i], frag)

\* more than 20 entries survive the filters and an excluded entry is listed
C4_Witness ==
    /\ pc = "selected"
    /\ Len(importantPaths) = 20
    /\ Cardinality({ j \in 1..Len(listing) : KeptBySelector(listing[j]) }) > 20
    /\ \E j \in 1..Len(listing) : ~KeptBySelector(listing[j])

\* p ranks strictly before q: higher priority, or equal priority and a
\* smaller path in code-unit order
RanksBefore(p, q) ==
    \/ getPriority(p) > getPriority(q)
    \/ getPriority(p) = getPriority(q) /\ CodeUnitCompare(p, q) < 0

\* C5: the output is the first min(20, n) surviving paths by priority
\* descending, ties by ascending path: adjacent outputs p, q have
\* priority(p) > priority(q) or equal priorities and p <= q; no survivor left
\* out ranks strictly before a path that is in; priority-100 paths precede
\* all others.
C5_SelectorOrder ==
    pc = "selected" =>
        LET out == { importantPaths[i] : i \in 1..Len(importantPaths) }
            survivors == { listing[j].path : j \in { k \in 1..Len(listing) : KeptBySelector(listing[k]) } }
        IN /\ Len(importantPaths) = Min(20, Cardinality(survivors))
           /\ \A i \in 1..(Len(importantPaths) - 1) :
                 \/ getPriority(importantPaths[i]) > getPriority(importantPaths[i + 1])
                 \/ /\ getPriority(importantPaths[i]) = getPriority(importantPaths[i + 1])
                    /\ CodeUnitCompare(importantPaths[i], importantPaths[i + 1]) <= 0
           /\ \A p \in survivors \ out : \A q \in out : ~RanksBefore(p, q)
           /\ \A i, j \in 1..Len(importantPaths) :
                 (getPriority(importantPaths[i]) = 100 /\ getPriority(importantPaths[j]) # 100) => i < j

\* C6: when the text-generation call throws or returns text that is not
\* valid JSON, analyzeWithGroq still returns a result with a non-empty
\* summary, a non-empty recommendations list and the scores of the
\* ScoreBreakdown computed before the call.
C6_FallbackGuarantee ==
    (pc = "narrated" /\ (completion.kind = "throws" \/ completion.doc.type = "invalid")) =>
        /\ analysis.summary # ""
        /\ Len(analysis.recommendations) > 0
        /\ \A c \in Categories : analysis[c].score = algorithmicScores[c].score

\* the call returned text that is not JSON, on a working set with findings
C6_Witness ==
    /\ pc = "narrated"
    /\ completion.kind = "text" /\ completion.doc.type = "invalid"
    /\ Len(files) > 0
    /\ algorithmicScores.security.score < 50

\* the first min(5, n) entries of a list, in the same order
IsFirstFive(shown, all) ==
    /\ Len(shown) = Min(5, Len(all))
    /\ \A i \in 1..Len(shown) : shown[i] = all[i]

\* C7: on both paths of analyzeWithGroq the result's category scores equal
\* the input scores, the input ScoreBreakdown is left unchanged, and each
\* category issue list of the result is the first min(5, n) entries of the
\* input list, in order.
C7_NarrativeFrame ==
    [][(pc = "narrate" /\ pc' = "narrated") =>
          /\ algorithmicScores' = algorithmicScores
          /\ \A c \in Categories :
                /\ analysis'[c].score = algorithmicScores[c].score
                /\ IsFirstFive(analysis'[c].issues, algorithmicScores[c].issues)]_vars

\* a parsed reply on a breakdown with one list longer than 5 and one shorter
C7_Witness ==
    /\ pc = "narrated"
    /\ completion.kind = "text" /\ completion.doc.type = "object"
    /\ Len(algorithmicScores.bestPractices.issues) > 5
    /\ Len(analysis.bestPractices.issues) = 5
    /\ Len(algorithmicScores.security.issues) \in 1..4
    /\ analysis.security.issues = algorithmicScores.security.issues

\* C8: for every outcome of the text-generation call, the recommendations of
\* the returned AnalysisResult is a sequence of exactly 3 strings.
C8_ExactlyThree ==
    pc = "narrated" => Len(analysis.recommendations) = 3

\* C9: for every declared default branch, a tree fetch that fails for that
\* branch is followed by exactly one further tree fetch, against master,
\* before the scan fails; the scan aborts for tree unavailability only
\* after both attempts failed, and a successful second attempt lets the scan
\* continue.
C9_TreeFallback ==
    /\ (Len(treeFetches) >= 1 /\ treeFetches[1].result = "notOk" /\ pc # "tree2") =>
          /\ Len(treeFetches) = 2
          /\ treeFetches[2].branch = "master"
    /\ (pc = "done" /\ response.error = "Could not fetch repository tree") =>
          /\ Len(treeFetches) = 2
          /\ \A i \in 1..2 : treeFetches[i].result = "notOk"
    /\ (Len(treeFetches) = 2 /\ treeFetches[2].result = "ok") =>
          ~(pc = "done" /\ response.error = "Could not fetch repository tree")

\* C10: a failed content fetch for a selected path (a non-success response,
\* a rejected request or a body that cannot be decoded) never aborts the
\* scan: the path is left out of the working set and the scan goes on to the
\* next selected path or, after the last one, to the languages request.
C10_ContentFailureTolerated ==
    [][pc = "content" =>
          /\ pc' = (IF Len(contentLog') < Len(importantPaths) THEN "content" ELSE "languages")
          /\ response' = response
          /\ contentLog'[Len(contentLog')].outcome # "ok" => files' = files]_vars

\* the analysis the success response carries has every field filled in by
\* analyzeWithGroq
CompleteAnalysis ==
    /\ analysis = analyzeWithGroq(files, languages, algorithmicScores, completion)
    /\ analysis.overallScore \in 0..100
    /\ analysis.summary # ""

\* both tree requests were made and neither returned a listing
TreeUnavailable ==
    Len(treeFetches) = 2 /\ \A i \in 1..2 : treeFetches[i].result # "ok"

\* C11: every scan ends in exactly one response, which either has a success
\* status with success = true, the repository and a complete analysis, or
\* has status 400, 429 or 500 with an error message and no analysis; a
\* missing or unparseable URL, a metadata 404 and a tree unavailable on both
\* branches give the second kind.
C11_OneResponse ==
    /\ (pc = "done") <=> (response # NoResponse)
    /\ pc = "done" =>
          \/ /\ response.status = 200 /\ response.success
             /\ response.keys = {"success", "repository", "analysis"}
             /\ CompleteAnalysis
          \/ /\ response.status \in {400, 429, 500} /\ ~response.success
             /\ response.keys = {"error"} /\ response.error # ""
             /\ analysis = NoAnalysis
    /\ (pc = "done" /\ (parsed = NoRepo \/ upstream.info = 404 \/ TreeUnavailable)) =>
          (~response.success /\ response.status # 200)

\* the scan of a main-branch repository whose tree is unavailable on both
\* branches has ended
C11_Witness ==
    /\ pc = "done"
    /\ TreeUnavailable
    /\ treeFetches[1].branch = "main"
    /\ response.status = 500
    /\ response.keys = {"error"}

\* the scan was aborted by a rate-limited metadata request or by a
\* rate-limited last tree request (a rate-limited languages response does
\* not abort a scan)
AbortedByRateLimit ==
    /\ pc = "done" /\ ~response.success
    /\ \/ upstream.info = 429
       \/ /\ treeFetches # <<>>
          /\ treeFetches[Len(treeFetches)].status = 429
          /\ listing = <<>> /\ contentLog = <<>> /\ upstream.languages = 0

\* C12: a scan aborted because an upstream request was rate-limited gets
\* status 429 with the cooldown message, never status 500; a scan aborted
\* for any other reason never gets status 429.
C12_RateLimit ==
    /\ AbortedByRateLimit =>
          (response.status = 429 /\ response.error = RateLimitMessage)
    /\ (pc = "done" /\ ~response.success /\ ~AbortedByRateLimit) => response.status # 429

\* position of a path in a sequence of distinct paths
PositionIn(paths, p) == CHOOSE k \in 1..Len(paths) : paths[k] = p

\* C13: the working set handed to the analyzers is a subsequence of the
\* selector's output in the selector's order: its paths are selected paths,
\* they keep the selector's relative order, and none appears twice.
C13_SelectorOrderKept ==
    /\ \A i \in 1..Len(files) : \E k \in 1..Len(importantPaths) : importantPaths[k] = files[i].path
    /\ \A i, j \in 1..Len(files) :
          i < j => PositionIn(importantPaths, files[i].path) < PositionIn(importantPaths, files[j].path)
    /\ pc = "narrate" =>
          algorithmicScores = [security |-> analyzeSecurityPatterns(files),
                               codeQuality |-> analyzeCodeQuality(files),
                               bestPractices |-> checkBestPractices(files)]

\* three paths were selected, the second came back empty, and the analyzers
\* ran on the first and the third
C13_Witness ==
    /\ pc = "narrate"
    /\ Len(importantPaths) = 3 /\ Len(files) = 2
    /\ files[1].path = importantPaths[1]
    /\ files[2].path = importantPaths[3]
    /\ contentLog[2].outcome = "notOk"

\* p is an integer nearest to num / den: no integer is nearer
NearestInteger(p, num, den) ==
    2 * (IF num >= p * den THEN num - p * den ELSE p * den - num) <= den

\* order of two names in the alphabet a to z, whatever the case of their
\* letters
AlphabeticalCompare(a, b) == CodeUnitCompare(toLowerCase(a), toLowerCase(b))

\* C14: for a map of byte counts with a positive total, the languages
\* output gives each language its share of the total as a percentage
\* rounded to the nearest integer, in descending order of percentage, ties
\* in alphabetical order of the names; TypeScript 300, CSS 100 gives
\* TypeScript 75 then CSS 25.
C14_LanguageBreakdown ==
    (pc = "broken down" /\ SumBytes(upstream.data, 1) > 0) =>
        LET data == upstream.data
            total == SumBytes(data, 1)
        IN /\ Len(languages) = Len(data)
           /\ \A i \in 1..Len(data) : \E j \in 1..Len(languages) :
                 /\ languages[j][1] = data[i][1]
                 /\ NearestInteger(languages[j][2], 100 * data[i][2], total)
           /\ \A j \in 1..(Len(languages) - 1) :
                 \/ languages[j][2] > languages[j + 1][2]
                 \/ /\ languages[j][2] = languages[j + 1][2]
                    /\ AlphabeticalCompare(languages[j][1], languages[j + 1][1]) <= 0
           /\ data = << <<"TypeScript", 300>>, <<"CSS", 100>> >> =>
                 languages = << <<"TypeScript", 75>>, <<"CSS", 25>> >>

\* C15: two runs of the deterministic core on the same listing and the same
\* contents give the same selected paths, the same three scores, the same
\* issue sequences (order, messages, files) and the same overall score:
\* the output depends on nothing but the listing and the contents.
C15_Determinism ==
    pc = "ran again" =>
        /\ importantPaths = firstRun.importantPaths
        /\ \A c \in {"security", "codeQuality", "bestPractices"} :
              /\ algorithmicScores[c].score = firstRun.algorithmicScores[c].score
              /\ algorithmicScores[c].issues = firstRun.algorithmicScores[c].issues
        /\ overallScore = firstRun.overallScore

\* the files the security rules are matched against, in working-set order
ScannedMatchers(k) ==
    { i \in 1..Len(files) : ~SecuritySkips(files[i].path) /\ k \in files[i].content.sec }

HasCodeFile == \E i \in 1..Len(files) : IsCodePath(files[i].path)

\* what the matched rules take off: each rule once, by its severity
RuleDeductions ==
    LET matched(sev) == { k \in 1..Len(SECURITY_PATTERNS) :
                            SECURITY_PATTERNS[k].severity = sev /\ ScannedMatchers(k) # {} }
    IN 30 * Cardinality(matched("critical")) + 15 * Cardinality(matched("warning"))
         + 8 * Cardinality(matched("info"))

EnvFiles == { i \in 1..Len(files) : IsEnvPath(files[i].path) }

\* C16: in one run of analyzeSecurityPatterns each rule of the table gives
\* at most one issue and at most one deduction, however many files match
\* it and however often, and the issue names the first scanned file, in
\* working-set order, whose content matches the rule.
C16_RuleOnce ==
    pc = "narrate" =>
        LET issues == algorithmicScores.security.issues
        IN /\ \A k \in 1..Len(SECURITY_PATTERNS) :
                 LET hits == { i \in 1..Len(issues) : issues[i].message = SECURITY_PATTERNS[k].message }
                 IN /\ Cardinality(hits) <= 1
                    /\ \A i \in hits :
                          /\ ScannedMatchers(k) # {}
                          /\ \E m \in ScannedMatchers(k) :
                                /\ \A m2 \in ScannedMatchers(k) : m <= m2
                                /\ issues[i].file = files[m].path
           /\ HasCodeFile => algorithmicScores.security.score >= 100 - RuleDeductions - 25

\* two scanned files match one rule, and the issue names the first, which
\* is not the first file of the working set
C16_Witness ==
    /\ pc = "narrate"
    /\ \E k \in 1..Len(SECURITY_PATTERNS) :
          /\ Cardinality(ScannedMatchers(k)) >= 2
          /\ 1 \notin ScannedMatchers(k)
          /\ \E i \in 1..Len(algorithmicScores.security.issues) :
                /\ algorithmicScores.security.issues[i].message = SECURITY_PATTERNS[k].message
                /\ algorithmicScores.security.issues[i].file = files[2].path

\* C17: with at least one code file in the working set the security score
\* is max(0, 100 - 30*C - 15*W - 8*I - 25*E), for C, W, I the numbers of
\* distinct critical, warning and info rules matched by a scanned file and
\* E = 1 when a .env file is in the set; config.js alone, matching only the
\* API-key rule, gives one critical issue naming config.js and score 70.
C17_SecurityScore ==
    pc = "narrate" =>
        /\ HasCodeFile =>
              algorithmicScores.security.score =
                  Max(0, 100 - RuleDeductions - (IF EnvFiles # {} THEN 25 ELSE 0))
        /\ files = << RepoFile("config.js", cApiKey) >> =>
              algorithmicScores.security =
                  CategoryResult(70, << Issue("critical", "Hardcoded API key detected", "config.js") >>)

\* the analyzers ran on config.js alone
C17_Witness ==
    /\ pc = "narrate"
    /\ files = << RepoFile("config.js", cApiKey) >>
    /\ algorithmicScores.security.score = 70

\* C18: with no file of a recognized code extension in the working set
\* (the empty set included) analyzeSecurityPatterns returns score 50 and
\* exactly one issue, of severity info, saying nothing could be assessed.
C18_NothingToAssess ==
    (pc = "narrate" /\ ~HasCodeFile) =>
        /\ algorithmicScores.security.score = 50
        /\ Len(algorithmicScores.security.issues) = 1
        /\ algorithmicScores.security.issues[1].severity = "info"
        /\ algorithmicScores.security.issues[1].message = "No code files to assess for security vulnerabilities"

\* C19: with a file at .env or under /.env in the working set the result
\* has the critical issue that a .env file should not be committed, naming
\* that file, and the score carries the 25-point deduction for it, whatever
\* else is in the set, code file or not, rule matched or not.
C19_EnvFile ==
    (pc = "narrate" /\ EnvFiles # {}) =>
        /\ \E i \in 1..Len(algorithmicScores.security.issues) :
              /\ algorithmicScores.security.issues[i].severity = "critical"
              /\ algorithmicScores.security.issues[i].message = ".env file should not be committed to repository"
              /\ \E e \in EnvFiles : algorithmicScores.security.issues[i].file = files[e].path
        /\ algorithmicScores.security.score =
              Max(0, (IF HasCodeFile THEN 100 - RuleDeductions ELSE 50) - 25)

\* rule k of the code-quality table is applied to file f
QualityApplies(k, f) ==
    /\ ~QualitySkips(f.path)
    /\ \/ Len(CODE_QUALITY_PATTERNS[k].fileTypes) = 0
       \/ \E t \in 1..Len(CODE_QUALITY_PATTERNS[k].fileTypes) :
             EndsWith(f.path, CODE_QUALITY_PATTERNS[k].fileTypes[t])

RECURSIVE QualityMatchCount(_, _)
QualityMatchCount(k, i) ==
    IF i > Len(files) THEN 0
    ELSE (IF QualityApplies(k, files[i]) THEN files[i].content.cq[k] ELSE 0) + QualityMatchCount(k, i + 1)

\* C20: in one run of analyzeCodeQuality the points deducted on account of
\* one rule of the pattern table, over all files of the working set, are
\* min(20, weight * total match count), weight 6 for warning rules and 3
\* for info rules: never more than 20 however many files match.
C20_RuleCap ==
    pc = "narrate" =>
        \A k \in 1..Len(CODE_QUALITY_PATTERNS) :
            /\ QualityRuleDeductions(files)[k] =
                  Min(20, (IF CODE_QUALITY_PATTERNS[k].severity = "warning" THEN 6 ELSE 3) * QualityMatchCount(k, 1))
            /\ QualityRuleDeductions(files)[k] <= 20

\* the analysed files (not skipped by the loop) with more than 500 lines
LargeFiles == { i \in 1..Len(files) : ~QualitySkips(files[i].path) /\ files[i].content.lines > 500 }

\* the analysed files with more than 5 lines longer than 150 characters
LongLineFiles == { i \in 1..Len(files) : ~QualitySkips(files[i].path) /\ files[i].content.longLines > 5 }

LargeFileMessage == "Some files exceed 500 lines - consider splitting"

\* C21: with k >= 1 analysed files over 500 lines analyzeCodeQuality emits
\* exactly one large-file issue, naming the first such file in working-set
\* order, and the large-file rule takes a flat 5 points in total whatever
\* k is; one 600-line file with no other finding loses 5 points to it.
C21_LargeFileFlat ==
    (pc = "narrate" /\ LargeFiles # {}) =>
        LET issues == algorithmicScores.codeQuality.issues
            hits == { i \in 1..Len(issues) : issues[i].message = LargeFileMessage }
        IN /\ Cardinality(hits) = 1
           /\ \A i \in hits : \E m \in LargeFiles :
                 /\ \A m2 \in LargeFiles : m <= m2
                 /\ issues[i].file = files[m].path
           /\ QualityLoop(files).largeDeducted = 5

\* C22: every analysed file with more than 5 lines longer than 150
\* characters gets one info issue naming it and costs 8 points: k such
\* files give k long-line issues and 8*k points, the check being made per
\* file and not once for the whole working set.
C22_LongLinesPerFile ==
    pc = "narrate" =>
        LET issues == algorithmicScores.codeQuality.issues
            longIssue(i, m) ==
                /\ issues[i].severity = "info"
                /\ issues[i].message = ToString(files[m].content.longLines) \o " lines exceed 150 characters"
                /\ issues[i].file = files[m].path
        IN /\ \A m \in LongLineFiles : \E i \in 1..Len(issues) : longIssue(i, m)
           /\ Cardinality({ i \in 1..Len(issues) : \E m \in LongLineFiles : longIssue(i, m) })
                 = Cardinality(LongLineFiles)
           /\ QualityLoop(files).longDeducted = 8 * Cardinality(LongLineFiles)

\* the band the claim derives from the code-file count alone
FileBandPoints(count) ==
    IF count = 0 THEN 50 ELSE IF count = 1 THEN 25 ELSE IF count <= 3 THEN 15 ELSE 0

\* the band the claim derives from the total code-line count alone
LineBandPoints(totalLines) ==
    IF totalLines < 50 THEN 30 ELSE IF totalLines < 150 THEN 15 ELSE IF totalLines < 300 THEN 8 ELSE 0

\* C23: the file-count band of analyzeCodeQuality follows from the number
\* of code files alone and the line-count band from the total number of
\* code lines alone, both firing when both conditions hold; for the empty
\* working set both the zero-code-files and the zero-lines penalty fire
\* and the code-quality score is at most 50.
C23_IndependentBands ==
    pc = "narrate" =>
        LET loop == QualityLoop(files)
            filed == QualityFileBand(loop)
            lined == QualityLineBand(filed)
        IN /\ loop.score - filed.score = FileBandPoints(loop.codeFiles)
           /\ filed.score - lined.score = LineBandPoints(loop.totalLines)
           /\ Len(lined.issues) - Len(loop.issues)
                 = (IF FileBandPoints(loop.codeFiles) > 0 THEN 1 ELSE 0)
                   + (IF LineBandPoints(loop.totalLines) > 0 THEN 1 ELSE 0)
           /\ files = <<>> => algorithmicScores.codeQuality.score <= 50

\* some path of the working set, in lower case, holds sub
NameHas(sub) == \E i \in 1..Len(files) : Includes(toLowerCase(files[i].path), sub)

ContentHas(flag) == \E i \in 1..Len(files) : files[i].content[flag]

Readmes == { i \in 1..Len(files) : Includes(toLowerCase(files[i].path), "readme") }

\* the README band: absent, or the first README too short
ReadmeCheck ==
    IF Readmes = {} THEN [points |-> 20, message |-> "No README.md file found"]
    ELSE LET first == CHOOSE i \in Readmes : \A j \in Readmes : i <= j
         IN IF files[first].content.len < 500
            THEN [points |-> 15, message |-> "README is too minimal (< 500 chars) - needs better documentation"]
            ELSE IF files[first].content.len < 1000
            THEN [points |-> 8, message |-> "README could be more comprehensive"]
            ELSE [points |-> 0, message |-> ""]

AsyncMessage == "Async code lacks proper error handling"

AsyncFired ==
    \E i \in 1..Len(algorithmicScores.bestPractices.issues) :
        algorithmicScores.bestPractices.issues[i].message = AsyncMessage

\* the checks of the claim that fire on the working set, as
\* <<points, message>> records
FiredChecks ==
    LET check(fires, points, message) == IF fires THEN {[points |-> points, message |-> message]} ELSE {}
    IN check(ReadmeCheck.points > 0, ReadmeCheck.points, ReadmeCheck.message)
       \cup check(~NameHas(".gitignore"), 15, "No .gitignore file found")
       \cup check(~(NameHas("package.json") \/ NameHas("requirements.txt") \/ NameHas("cargo.toml")
                    \/ NameHas("go.mod") \/ NameHas("pom.xml")),
                  10, "No dependency/package management file found")
       \cup check((\E i \in 1..Len(files) : EndsWith(toLowerCase(files[i].path), ".ts")
                                             \/ EndsWith(toLowerCase(files[i].path), ".tsx"))
                  /\ ~NameHas("tsconfig"),
                  12, "TypeScript files without tsconfig.json")
       \cup check(ContentHas("env") /\ ~(NameHas(".env.example") \/ NameHas(".env.sample")),
                  12, "Uses environment variables but no .env.example file")
       \cup check(~(NameHas("test") \/ NameHas("spec") \/ ContentHas("testCalls")),
                  20, "No test files detected - testing is critical")
       \cup check(~NameHas("license"), 10, "No LICENSE file found")
       \cup check(~ContentHas("tryLit") /\ ~ContentHas("catchLit"), 15, "No error handling patterns detected")
       \cup check(AsyncFired, 10, AsyncMessage)

RECURSIVE SumPoints(_)
SumPoints(checks) ==
    IF checks = {} THEN 0
    ELSE LET c == CHOOSE c \in checks : TRUE IN c.points + SumPoints(checks \ {c})

C25_UnguardedAsync ==
    pc = "narrate" =>
        LET asyncFunctions == SumCounts(files, "asyncFns", 1)
            awaitStatements == SumCounts(files, "awaits", 1)
            tryCatchCount == SumCounts(files, "tryBlocks", 1)
        IN /\ AsyncFired =>
                 /\ asyncFunctions > 0 \/ awaitStatements > 3
                 /\ 10 * tryCatchCount < 3 * (asyncFunctions + awaitStatements)
           /\ ((asyncFunctions > 0 \/ awaitStatements > 3) /\ tryCatchCount = 0) => AsyncFired

\* C26: in every scan the text-generation call is issued at most once and
\* never retried; it goes out only after the metadata fetch, the tree
\* fetch, every content fetch, the languages fetch and the three analyzers
\* are done; a scan ended by an error response of an earlier step issued
\* none; and each selected path gets at most one content request.
C26_CallOrder ==
    /\ upstream.generations <= 1
    /\ upstream.generations = 1 =>
          /\ upstream.info = 200
          /\ \E i \in 1..Len(treeFetches) : treeFetches[i].result = "ok"
          /\ Len(contentLog) = Len(importantPaths)
          /\ \A i \in 1..Len(contentLog) : contentLog[i].outcome \notin {"throws", "badBody"}
          /\ upstream.languages # 0
          /\ algorithmicScores # NoScores
          /\ pc = "narrate" =>
                algorithmicScores = [security |-> analyzeSecurityPatterns(files),
                                     codeQuality |-> analyzeCodeQuality(files),
                                     bestPractices |-> checkBestPractices(files)]
    /\ upstream.generations = 0 => algorithmicScores = NoScores
    /\ (pc = "done" /\ ~response.success) => upstream.generations = 0 /\ completion = NoCompletion
    /\ (pc = "done" /\ response.success) => upstream.generations = 1
    /\ Len(contentLog) <= Len(importantPaths)
    /\ \A i \in 1..Len(contentLog) : contentLog[i].path = importantPaths[i]
    /\ \A i, j \in 1..Len(contentLog) : i # j => contentLog[i].path # contentLog[j].path

\* a scan of two selected paths that ended well after one generation call
C26_Witness ==
    /\ pc = "done" /\ response.success
    /\ upstream.generations = 1
    /\ Len(contentLog) >= 2
    /\ completion # NoCompletion

\* C27: filterImportantFiles does not depend on the order of its input:
\* for a listing of pairwise distinct paths and any reordering of it the
\* returned path sequence is the same, same paths, same order, same
\* truncation at 20.
C27_SelectorOrderFree ==
    pc = "listing reordered" => firstRun.importantPaths = importantPaths

\* C28: the score and the set of (severity, message) pairs returned by
\* analyzeSecurityPatterns depend only on the set of files: reordering the
\* working set changes at most the file named in an issue, never the
\* score, the number of issues, their severities or their messages.
C28_SecurityOrderFree ==
    pc = "working set reordered" =>
        LET one == algorithmicScores.security
            other == firstRun.algorithmicScores.security
            pairs(r) == { <<r.issues[i].severity, r.issues[i].message>> : i \in 1..Len(r.issues) }
        IN /\ other.score = one.score
           /\ Len(other.issues) = Len(one.issues)
           /\ pairs(other) = pairs(one)
           /\ \A i \in 1..Len(one.issues) :
                 /\ other.issues[i].severity = one.issues[i].severity
                 /\ other.issues[i].message = one.issues[i].message

\* the two orders of a working set name different files in an issue
C28_Witness ==
    /\ pc = "working set reordered"
    /\ Len(files) >= 2
    /\ \E i \in 1..Len(algorithmicScores.security.issues) :
          /\ algorithmicScores.security.issues[i].file # firstRun.algorithmicScores.security.issues[i].file
          /\ algorithmicScores.security.issues[i].file # undefined

EnvMessage == ".env file should not be committed to repository"

\* C29: in the orchestrated scan the committed-.env issue can never
\* appear: filterImportantFiles returns no path whose file name is .env,
\* so no working set built by POST holds a file at .env or under /.env,
\* whatever the tree listing, and no result carries the issue.
C29_EnvNeverSelected ==
    /\ \A i \in 1..Len(importantPaths) :
          ~IsEnvPath(importantPaths[i]) /\ FileNameOf(importantPaths[i]) # ".env"
    /\ \A i \in 1..Len(files) : ~IsEnvPath(files[i].path)
    /\ \A i \in 1..Len(algorithmicScores.security.issues) :
          algorithmicScores.security.issues[i].message # EnvMessage
    /\ \A i \in 1..Len(analysis.security.issues) : analysis.security.issues[i].message # EnvMessage

\* a scan of a tree that lists .env ended well
C29_Witness ==
    /\ pc = "done" /\ response.success
    /\ \E i \in 1..Len(listing) : listing[i].path = ".env" /\ listing[i].type = "blob"
    /\ Len(files) >= 2

\* C30: every handleScan invocation that sends a request ends with
\* isLoading false and in exactly one of two outcomes: the response was
\* successful, the result is in sessionStorage under scanResult, /report
\* was asked of the router and error is empty; or the request failed or
\* had a non-success status, error is a non-empty message, nothing was
\* stored and no navigation was asked.  With a blank URL no request is
\* sent, an error is set and isLoading is never set.
C30_ScanOutcome ==
    pc = "settled" =>
        IF page.requests = 0
        THEN /\ trim(page.repoUrl) = ""
             /\ page.error # "" /\ page.loadings = 0 /\ ~page.isLoading
             /\ ~page.scanResult /\ page.route = "/"
        ELSE LET successful == response = SuccessResponse
             IN /\ page.requests = 1
                /\ ~page.isLoading
                /\ \/ /\ successful
                      /\ page.scanResult /\ page.route = "/report" /\ page.error = ""
                   \/ /\ ~successful
                      /\ page.error # "" /\ ~page.scanResult /\ page.route = "/"

====
